---- MODULE Spec2Model ----
(***************************************************************************)
(* Model of the LAN file/directory transfer protocol engine:               *)
(*   sender.py    send_file, send_directory, _receive_acknowledgment       *)
(*   receiver.py  handle_client, receive_file, receive_directory,          *)
(*                _verify_file_hash                                        *)
(* One sender invocation talks to one handler thread over one TCP          *)
(* connection.  The two directions of the connection are byte queues; the  *)
(* receiver's destination directory is reduced to the final path of the    *)
(* transfer and the staging artifact of the handler.                       *)
(***************************************************************************)
EXTENDS Integers, Sequences, FiniteSets, TLC

\* ------------------------------------------------------------ bounds
MaxSize == 2
MaxEntries == 2
MaxFree == 2
BUFFER_SIZE == 2
MaxPfTotal == 60
MaxPfFree == 70
MaxStopCalls == 2
MaxRawBody == 3
MaxTimeout == 4
MaxDepth == 3
MaxConns == 5
MaxChunks == 201

\* ------------------------------------------------- program constants
ACK_CAP == 1024
PROBE_EVERY == 100

VARIABLES
  kind,       \* which sender operation runs: "file" / "directory"
  sAlgo,      \* sender's config HASH_ALGORITHM
  rAlgo,      \* receiver's config HASH_ALGORITHM
  skip,       \* receiver's config SKIP_HASH_VERIFICATION
  src,        \* sender's source: entries [size at stat time, disk at read time]
  free,       \* free space get_disk_usage reports (FreeUnknown: None)
  raw,        \* the frame a client other than sender.py writes (NoFrame: none)
  snd,        \* locals of send_file / send_directory
  rcv,        \* locals of handle_client / receive_file / receive_directory
  connected,  \* the TCP connection was established
  sOpen,      \* sender's socket end is open
  rOpen,      \* handler's client_socket is open
  metaq,      \* manifest frames in flight sender -> receiver
  s2r,        \* payload bytes in flight sender -> receiver
  r2s,        \* control-token bytes in flight receiver -> sender
  wire,       \* history: tokens the receiver wrote, in order
  failed_validations,
  fin0,       \* what was at the final destination path when the transfer began
  fin,        \* what is at the final destination path
  tmp,        \* the handler's staging artifact
  pf,         \* disk-space preflight taken alone: [total, free, out]
  server_control, \* main.py app_state['server_control']: [running, socket]
  server_ready,   \* main.py app_state['server_ready'], a threading.Event
  server_lock,    \* main.py app_state['server_lock']: who holds it
  lsock,          \* the listening socket start_server creates: none/open/closed
  thr,            \* the server thread: start_server_wrapper, start_server
  caller,         \* the UI thread: main.py main, receive_mode
  stopper,        \* another thread calling receiver.stop_server directly
  ack,            \* one call of sender.py _receive_acknowledgment taken alone
  fz,             \* two handlers finalizing directories of one name
  pth,            \* one receive taken alone: the paths the handler touches
  acc,           \* the accept loop taken alone, its handlers counted
  prb             \* the entry loop of one send_directory taken alone

cfgv == <<kind, sAlgo, rAlgo, skip, src, free, raw, fin0>>
netv == <<connected, sOpen, rOpen, metaq, s2r, r2s, wire>>
fsv == <<fin, tmp>>
srvv == <<server_control, server_ready, server_lock, lsock, thr, caller, stopper>>
mainv == <<cfgv, snd, rcv, netv, failed_validations, fsv, pf, srvv>>
auxv == <<ack, fz, pth, acc, prb>>
vars == <<cfgv, snd, rcv, netv, failed_validations, fsv, pf, srvv, auxv>>

\* ------------------------------------------------------------ helpers
Min(a, b) == IF a < b THEN a ELSE b
Max(a, b) == IF a > b THEN a ELSE b
Take(s, n) == SubSeq(s, 1, Min(n, Len(s)))
Drop(s, n) == SubSeq(s, Min(n, Len(s)) + 1, Len(s))
StartsWith(s, p) == Len(s) >= Len(p) /\ SubSeq(s, 1, Len(p)) = p
Zeros(n) == [k \in 1..n |-> 0]
Byte == {0, 1}

RECURSIVE SeqsUpTo(_)
SeqsUpTo(n) ==
  IF n = 0 THEN {<<>>}
  ELSE LET S == SeqsUpTo(n - 1)
       IN S \cup {Append(s, b) : s \in {t \in S : Len(t) = n - 1}, b \in Byte}

\* control tokens, as the bytes written to the socket
ACK1 == <<"A", "C", "K", "1">>
ACK2 == <<"A", "C", "K", "2">>
DONE == <<"D", "O", "N", "E">>
MISMATCH == <<"M", "I", "S", "M", "A", "T", "C", "H">>
SPACE_ERROR == <<"S", "P", "A", "C", "E", "_", "E", "R", "R", "O", "R">>
TIMEOUT == <<"T", "I", "M", "E", "O", "U", "T">>
SOCKET_ERROR == <<"S", "O", "C", "K", "E", "T", "_", "E", "R", "R", "O", "R">>

\* str.lower() on the algorithm identifiers of the model
AlgoNames == {"sha256", "SHA256", "md5"}
Lower(a) == IF a = "SHA256" THEN "sha256" ELSE a
ReceiverAlgos == {"sha256"}

\* calculate_file_hash: the digest of the bytes under the configured algorithm
calculate_file_hash(algo, content) == <<Lower(algo), content>>

FreeUnknown == -1
NoTimeout == -1
METADATA_LIMIT == 10485760
NAME == "X"

\* ---------------------------------------------------------- filesystem
NoEntry == [kind |-> "none", own |-> "none", files |-> <<>>, nested |-> FALSE]
OldFile == [kind |-> "file", own |-> "old", files |-> <<<<1>>>>, nested |-> FALSE]
OldDir == [kind |-> "dir", own |-> "old", files |-> <<<<1>>, <<1>>, <<1>>>>, nested |-> FALSE]
NoTemp == [kind |-> "none", files |-> <<>>]

\* ------------------------------------------------------------- inputs
\* A source entry: the size os.path.getsize / stat reports when the sender
\* starts, and the bytes the file yields when it is read for sending.  Byte 0
\* is a byte as it was when the hash was computed, byte 1 a byte that differs;
\* a disk shorter than size is a file that shrank in between.
Entries == {e \in [size : 0..MaxSize, disk : SeqsUpTo(MaxSize)] : Len(e.disk) <= e.size}

RECURSIVE EntryLists(_)
EntryLists(n) ==
  IF n = 0 THEN {<<>>}
  ELSE LET S == EntryLists(n - 1)
       IN S \cup {Append(s, e) : s \in {t \in S : Len(t) = n - 1}, e \in Entries}

RECURSIVE SumSizes(_)
SumSizes(files) ==
  IF files = <<>> THEN 0 ELSE files[1].size + SumSizes(Tail(files))

\* the directories sent: at most MaxEntries files of MaxSize bytes in all
DirSources == {l \in EntryLists(MaxEntries) : SumSizes(l) <= MaxSize}

SndInit == [pc |-> "start", i |-> 0, sent |-> 0, chunk_count |-> 0, sent_total |-> 0,
            result |-> "none", err |-> "none", response |-> <<>>,
            last_successful_file |-> 0, acks |-> 0, read |-> 0, at |-> "none",
            hashed |-> FALSE,
            report |-> [file |-> 0, files_completed |-> 0, last |-> 0]]

NoMeta == [type |-> "none"]

RcvInit == [pc |-> "meta", metadata |-> NoMeta, i |-> 0, received |-> 0,
            files_completed |-> 0, hash_valid |-> TRUE, err |-> "none", report |-> "none",
            order |-> <<>>, size_ok |-> 0, body_read |-> 0,
            hash_computed |-> FALSE, shown |-> "none"]

\* A manifest frame as the handler finds it on the connection: how many of the
\* 4 prefix bytes arrived, the length struct.unpack('!I') gives for them, how
\* many body bytes arrived, and what json.loads makes of the whole body:
\* "invalid" (JSONDecodeError) or "object", the dict being value.
NoFrame == [prefix |-> 0, metadata_size |-> 0, got |-> 0, json |-> "invalid", value |-> NoMeta]

\* len(json.dumps(m).encode()), in units of the model: the braces and one unit
\* for each member
JsonLen(m) == 2 + Cardinality(DOMAIN m)

\* sender.py 113-115 / 222-224: struct.pack('!I', len(data)) + data, whole
Frame(m) ==
  [prefix |-> 4, metadata_size |-> JsonLen(m), got |-> JsonLen(m), json |-> "object", value |-> m]

\* dict.get(key, default)
Get(m, key, default) == IF key \in DOMAIN m THEN m[key] ELSE default

PfIdle == [total |-> 0, free |-> 0, out |-> "none"]

\* no call of _receive_acknowledgment under study; no pair of handlers
AckIdle == [pc |-> "none", before |-> 0, sock |-> 0, original_timeout |-> 0,
            timeout |-> 0, exit |-> "none", expected |-> <<>>, peer |-> <<>>,
            got |-> <<>>, ok |-> FALSE, response |-> <<>>, class |-> "none"]
Handlers == {"A", "B"}
FzIdle == [final |-> [exists |-> FALSE, content |-> {}],
           pc |-> [h \in Handlers |-> "none"], listed |-> [h \in Handlers |-> {}]]
NoPath == [abs |-> FALSE, parts |-> <<>>]
PthIdle == [pc |-> "none", kind |-> "none", name |-> NoPath, path |-> NoPath,
            dirs |-> {}, temp |-> <<>>, created |-> {}, removed |-> {},
            pub |-> FALSE, published |-> <<>>, err |-> "none"]
AccIdle == [pc |-> "none", connects |-> 0, pending |-> 0, running |-> 0, ended |-> 0]
PrbIdle == [pc |-> "none", chunks |-> <<>>, i |-> 0, chunk_count |-> 0, probes |-> 0,
            sent_total |-> 0, probe_failed |-> FALSE, failed_in_loop |-> FALSE,
            sent_at_fail |-> 0]
AuxIdle == ack = AckIdle /\ fz = FzIdle /\ pth = PthIdle /\ acc = AccIdle /\ prb = PrbIdle

\* ------------------------------------------------------- server state
\* one activation of stop_server: its position and its local socket_to_close;
\* entry is the server state the call found
NoControl == [running |-> FALSE, socket |-> "None"]
\* no stop_server call made yet; handler is what the handler thread was doing
\* when the last call was made ("none": no handler thread)
NoCall == [pc |-> "none", socket_to_close |-> "None", entry |-> NoControl, handler |-> "none"]

\* main.py 31-33: app_state as main() builds it, no thread started
ServerDown ==
  /\ server_control = NoControl
  /\ server_ready = FALSE
  /\ server_lock = "free"
  /\ lsock = "none"
  /\ thr = [pc |-> "idle", server_socket |-> "None", bind |-> "none", summary |-> <<>>]
  /\ caller = [pc |-> "idle", result |-> "none", call |-> NoCall]
  /\ stopper = [calls |-> 0, at |-> "none", call |-> NoCall]

\* the server after a successful start: start_server in its accept loop,
\* receive_mode in its key loop
ServerUp ==
  /\ server_control = [running |-> TRUE, socket |-> "s"]
  /\ server_ready = TRUE
  /\ server_lock = "free"
  /\ lsock = "open"
  /\ thr = [pc |-> "accept", server_socket |-> "s", bind |-> "ok", summary |-> <<>>]
  /\ caller = [pc |-> "ui_loop", result |-> "none", call |-> NoCall]
  /\ stopper = [calls |-> 0, at |-> "none", call |-> NoCall]

Init ==
  /\ kind \in {"file", "directory"}
  /\ sAlgo \in AlgoNames
  /\ rAlgo \in ReceiverAlgos
  /\ skip \in BOOLEAN
  /\ src \in IF kind = "file" THEN {<<e>> : e \in Entries} ELSE DirSources
  /\ free \in IF kind = "file" THEN {FreeUnknown} ELSE {FreeUnknown} \cup 0..MaxFree
  /\ fin0 \in {NoEntry, OldFile, OldDir}
  /\ fin = fin0
  /\ tmp = NoTemp
  /\ snd = SndInit
  /\ rcv = RcvInit
  /\ connected = FALSE /\ sOpen = FALSE /\ rOpen = FALSE
  /\ metaq = <<>> /\ s2r = <<>> /\ r2s = <<>> /\ wire = <<>>
  /\ failed_validations = <<>>
  /\ pf = PfIdle /\ raw = NoFrame
  /\ ServerUp /\ AuxIdle

\* ------------------------------------------------------------- sender
\* every exit of send_file / send_directory: the return value, and the
\* finally clause closing the socket
SndReturn(s, ok, why) ==
  /\ snd' = [s EXCEPT !.pc = "returned", !.result = IF ok THEN "true" ELSE "false",
                      !.err = why, !.at = s.pc]
  /\ sOpen' = FALSE

\* sockets left blocking, no timeout set on them
NoTimeoutSet(side) == FALSE

\* the socket of the side has a timeout when it reads: handle_client sets 30 s
\* on client_socket (receiver.py 185) and receive_directory again before each
\* recv (465); send_file sets 30 s, send_directory 120 s (sender.py 92, 192)
\* and _receive_acknowledgment its own (352)
TimeoutSet(side) == side \in {"sender", "handler"}

\* sender.py _receive_acknowledgment (the definition in force, line 348):
\* the outcomes of one call, [ok, response, n] with n the bytes consumed
AckMaxLength(expected) ==
  LET RECURSIVE LongestLen(_)
      LongestLen(e) == IF e = <<>> THEN 0 ELSE Max(Len(e[1]), LongestLen(Tail(e)))
  IN Min(LongestLen(expected), ACK_CAP)

AckMatch(response, expected) ==
  LET hits == {k \in 1..Len(expected) : StartsWith(response, expected[k])}
  IN IF hits = {} THEN [ok |-> FALSE, response |-> response]
     ELSE [ok |-> TRUE, response |-> expected[CHOOSE k \in hits : \A j \in hits : k <= j]]

_receive_acknowledgment(expected) ==
  IF r2s # <<>>
  THEN LET response == Take(r2s, AckMaxLength(expected))
           m == AckMatch(response, expected)
       IN {[ok |-> m.ok, response |-> m.response, n |-> Len(response)]}
  ELSE IF rOpen
       THEN IF TimeoutSet("sender") THEN {[ok |-> FALSE, response |-> TIMEOUT, n |-> 0]}
            ELSE {}
       ELSE {[ok |-> FALSE, response |-> <<>>, n |-> 0],
             [ok |-> FALSE, response |-> SOCKET_ERROR, n |-> 0]}

AckErr(a) == IF a.response = TIMEOUT THEN "timeout" ELSE "ack"

\* sendall / send towards a handler that may have closed its end: the bytes are
\* queued while the peer is open; after the peer closed the call either raises
\* or returns with the bytes lost
SendOutcomes == IF rOpen THEN {"ok"} ELSE {"lost", "raise"}

\* send_file 77-82 / send_directory 180-184: path check, size
SendStart ==
  /\ snd.pc = "start"
  /\ snd' = [snd EXCEPT !.pc = "connect"]
  /\ UNCHANGED <<cfgv, auxv, rcv, netv, failed_validations, fsv, pf, srvv>>

\* send_file 91-95 / send_directory 190-199: create_socket, connect
SendConnect ==
  /\ snd.pc = "connect"
  /\ \/ /\ snd' = [snd EXCEPT !.pc = "prepare"]
        /\ connected' = TRUE /\ sOpen' = TRUE /\ rOpen' = TRUE
     \/ /\ SndReturn(snd, FALSE, "connect")
        /\ UNCHANGED <<connected, rOpen>>
  /\ UNCHANGED <<cfgv, auxv, rcv, metaq, s2r, r2s, wire, failed_validations, fsv, pf, srvv>>

\* the manifest json.dumps builds: send_file 104-111, send_directory 212-220
\* with files_info of utils.collect_directory_files (path, full_path, size)
FileManifest ==
  [type |-> "file", name |-> NAME, size |-> src[1].size,
   hash |-> calculate_file_hash(sAlgo, Zeros(src[1].size)), hash_algorithm |-> sAlgo]

collect_directory_files == [k \in 1..Len(src) |-> [path |-> k, size |-> src[k].size]]

\* ScanTotal with total_size = size in place of total_size += size
ScanTotalLast(files) == IF files = <<>> THEN 0 ELSE files[Len(files)].size

\* utils.collect_directory_files 41-55: total_size, the running total the loop
\* keeps while it appends the entries
ScanTotal(files) ==
  LET RECURSIVE Loop(_, _)
      Loop(k, total_size) ==
        IF k > Len(files) THEN total_size ELSE Loop(k + 1, total_size + files[k].size)
  IN Loop(1, 0)

DirManifest ==
  [type |-> "directory", name |-> NAME, files |-> collect_directory_files,
   total_files |-> Len(collect_directory_files),
   total_size |-> ScanTotal(collect_directory_files), hash_algorithm |-> sAlgo]

\* SendMeta without the test for an empty scan: the manifest is sent anyway
SendMetaOfNoFiles ==
  /\ snd.pc = "prepare"
  /\ \E o \in SendOutcomes :
       IF o = "raise"
       THEN /\ SndReturn([snd EXCEPT !.hashed = (kind = "file")], FALSE, "network")
            /\ UNCHANGED metaq
       ELSE /\ snd' = [snd EXCEPT !.pc = "ack1", !.hashed = (kind = "file")]
            /\ metaq' = IF o = "ok"
                        THEN Append(metaq, Frame(IF kind = "file" THEN FileManifest
                                                 ELSE DirManifest))
                        ELSE metaq
            /\ UNCHANGED sOpen
  /\ UNCHANGED <<cfgv, auxv, rcv, connected, rOpen, s2r, r2s, wire, failed_validations, fsv, pf, srvv>>

\* send_file 102-115 / send_directory 203-224: hash or scan, then the manifest;
\* hashed records that calculate_file_hash (send_file 102) has run
SendMeta ==
  /\ snd.pc = "prepare"
  /\ IF kind = "directory" /\ src = <<>>
     THEN /\ SndReturn(snd, FALSE, "nofiles")
          /\ UNCHANGED metaq
     ELSE \E o \in SendOutcomes :
            IF o = "raise"
            THEN /\ SndReturn([snd EXCEPT !.hashed = (kind = "file")], FALSE, "network")
                 /\ UNCHANGED metaq
            ELSE /\ snd' = [snd EXCEPT !.pc = "ack1", !.hashed = (kind = "file")]
                 /\ metaq' = IF o = "ok"
                             THEN Append(metaq, Frame(IF kind = "file" THEN FileManifest
                                                      ELSE DirManifest))
                             ELSE metaq
                 /\ UNCHANGED sOpen
  /\ UNCHANGED <<cfgv, auxv, rcv, connected, rOpen, s2r, r2s, wire, failed_validations, fsv, pf, srvv>>

\* send_file 118-127 / send_directory 227-236: wait for ACK1 or MISMATCH
SendAck1 ==
  /\ snd.pc = "ack1"
  /\ \E a \in _receive_acknowledgment(<<ACK1, MISMATCH>>) :
       LET s == [snd EXCEPT !.response = a.response, !.read = @ + a.n] IN
       /\ r2s' = Drop(r2s, a.n)
       /\ IF ~a.ok THEN SndReturn(s, FALSE, AckErr(a))
          ELSE IF a.response = MISMATCH THEN SndReturn(s, FALSE, "mismatch")
          ELSE /\ snd' = [s EXCEPT !.pc = IF kind = "file" THEN "payload" ELSE "probe",
                                   !.i = 1]
               /\ UNCHANGED sOpen
  /\ UNCHANGED <<cfgv, auxv, rcv, connected, rOpen, metaq, s2r, wire, failed_validations, fsv, pf, srvv>>

\* f.read(min(BUFFER_SIZE, size - sent)) at offset sent of entry i
ReadChunk(i, sent) ==
  SubSeq(src[i].disk, sent + 1, Min(sent + Min(BUFFER_SIZE, src[i].size - sent), Len(src[i].disk)))

\* send_file 131-145: one pass of the chunk loop
SendFileChunk ==
  /\ snd.pc = "payload"
  /\ LET chunk == ReadChunk(1, snd.sent) IN
     IF snd.sent < src[1].size /\ chunk # <<>>
     THEN \E o \in SendOutcomes :
            IF o = "raise"
            THEN SndReturn(snd, FALSE, "network") /\ UNCHANGED s2r
            ELSE /\ s2r' = IF o = "ok" THEN s2r \o chunk ELSE s2r
                 /\ snd' = [snd EXCEPT !.sent = @ + Len(chunk), !.sent_total = @ + Len(chunk)]
                 /\ UNCHANGED sOpen
     ELSE /\ snd' = [snd EXCEPT !.pc = "waitdone"]
          /\ UNCHANGED <<s2r, sOpen>>
  /\ UNCHANGED <<cfgv, auxv, rcv, connected, rOpen, metaq, r2s, wire, failed_validations, fsv, pf, srvv>>

\* SendWaitDone returning success whatever the acknowledgment read gave
SendWaitDoneIgnoresAck ==
  /\ snd.pc = "waitdone"
  /\ \E a \in _receive_acknowledgment(<<DONE>>) :
       /\ r2s' = Drop(r2s, a.n)
       /\ SndReturn([snd EXCEPT !.response = a.response, !.read = @ + a.n], TRUE, "none")
  /\ UNCHANGED <<cfgv, auxv, rcv, connected, rOpen, metaq, s2r, wire, failed_validations, fsv, pf, srvv>>

\* send_file 148-156 / send_directory 309-317: the final acknowledgment
SendWaitDone ==
  /\ snd.pc = "waitdone"
  /\ \E a \in _receive_acknowledgment(<<DONE>>) :
       LET s == [snd EXCEPT !.response = a.response, !.read = @ + a.n] IN
       /\ r2s' = Drop(r2s, a.n)
       /\ IF a.ok THEN SndReturn(s, TRUE, "none") ELSE SndReturn(s, FALSE, AckErr(a))
  /\ UNCHANGED <<cfgv, auxv, rcv, connected, rOpen, metaq, s2r, wire, failed_validations, fsv, pf, srvv>>

\* the sending process dies or its connection is cut: its end closes with no
\* return value
SenderCrash ==
  /\ connected /\ sOpen
  /\ snd' = [snd EXCEPT !.pc = "crashed"]
  /\ sOpen' = FALSE
  /\ UNCHANGED <<cfgv, auxv, rcv, connected, rOpen, metaq, s2r, r2s, wire, failed_validations, fsv, pf, srvv>>

\* send_directory 249-254: the liveness probe before an entry, sock.send(b'')
SendDirProbe ==
  /\ snd.pc = "probe"
  /\ \E o \in SendOutcomes :
       IF o = "raise"
       THEN SndReturn(snd, FALSE, "network")
       ELSE /\ snd' = [snd EXCEPT !.pc = "dpayload", !.sent = 0, !.chunk_count = 0]
            /\ UNCHANGED sOpen
  /\ UNCHANGED <<cfgv, auxv, rcv, connected, rOpen, metaq, s2r, r2s, wire, failed_validations, fsv, pf, srvv>>

\* send_directory 256-282: one pass of the chunk loop of entry i, with the
\* probe after every PROBE_EVERY-th chunk
SendDirChunk ==
  /\ snd.pc = "dpayload"
  /\ LET chunk == ReadChunk(snd.i, snd.sent) IN
     IF snd.sent < src[snd.i].size /\ chunk # <<>>
     THEN \E o \in SendOutcomes, p \in SendOutcomes :
            IF o = "raise" \/ ((snd.chunk_count + 1) % PROBE_EVERY = 0 /\ p = "raise")
            THEN SndReturn(snd, FALSE, "network") /\ UNCHANGED s2r
            ELSE /\ s2r' = IF o = "ok" THEN s2r \o chunk ELSE s2r
                 /\ snd' = [snd EXCEPT !.sent = @ + Len(chunk), !.sent_total = @ + Len(chunk),
                                       !.chunk_count = @ + 1]
                 /\ UNCHANGED sOpen
     ELSE /\ snd' = [snd EXCEPT !.pc = "ack2"]
          /\ UNCHANGED <<s2r, sOpen>>
  /\ UNCHANGED <<cfgv, auxv, rcv, connected, rOpen, metaq, r2s, wire, failed_validations, fsv, pf, srvv>>

\* SendDirAck2 going on to the next entry without reading the acknowledgment
SendDirAck2NoWait ==
  /\ snd.pc = "ack2"
  /\ snd' = [snd EXCEPT !.last_successful_file = snd.i, !.acks = @ + 1, !.i = @ + 1,
                        !.pc = IF snd.i + 1 > Len(src) THEN "waitdone" ELSE "probe"]
  /\ UNCHANGED <<cfgv, auxv, rcv, netv, failed_validations, fsv, pf, srvv>>

\* the report counting the entry whose acknowledgment failed as completed
AckFailureCountsCurrent(s) ==
  [s EXCEPT !.report = [file |-> s.i, files_completed |-> s.i,
                        last |-> s.last_successful_file]]

\* send_directory 303-306: the exception raised when the ACK2 wait of entry i
\* failed names the entry, i - 1 completed files and the last successful file
AckFailure(s) ==
  [s EXCEPT !.report = [file |-> s.i, files_completed |-> s.i - 1,
                        last |-> s.last_successful_file]]

\* send_directory 288-306: wait for the ACK2 of entry i
SendDirAck2 ==
  /\ snd.pc = "ack2"
  /\ \E a \in _receive_acknowledgment(<<ACK2>>) :
       LET s == [snd EXCEPT !.response = a.response, !.read = @ + a.n] IN
       /\ r2s' = Drop(r2s, a.n)
       /\ IF ~a.ok THEN SndReturn(AckFailure(s), FALSE, AckErr(a))
          ELSE /\ snd' = [s EXCEPT !.last_successful_file = s.i, !.acks = @ + 1,
                                   !.i = @ + 1,
                                   !.pc = IF s.i + 1 > Len(src) THEN "waitdone" ELSE "probe"]
               /\ UNCHANGED sOpen
  /\ UNCHANGED <<cfgv, auxv, rcv, connected, rOpen, metaq, s2r, wire, failed_validations, fsv, pf, srvv>>

\* ----------------------------------------------------------- receiver
\* client_socket.send(token): written while the sender's end is open; after
\* the sender closed, the call either raises or returns with the bytes lost
RSendOutcomes == IF sOpen THEN {"ok"} ELSE {"lost", "raise"}

\* what a successful send leaves on the connection
Written(o, token, name) ==
  /\ r2s' = IF o = "ok" THEN r2s \o token ELSE r2s
  /\ wire' = Append(wire, name)

\* client_socket.recv(n): the bytes waiting, up to n; with none waiting, a
\* timeout while the sender is connected, else the empty read or a reset
RecvOutcomes(n) ==
  IF s2r # <<>> THEN {[what |-> "data", data |-> Take(s2r, n)]}
  ELSE IF sOpen
       THEN IF TimeoutSet("handler") THEN {[what |-> "timeout", data |-> <<>>]} ELSE {}
       ELSE {[what |-> "connlost", data |-> <<>>], [what |-> "network", data |-> <<>>]}

\* handle_client 272-276 after an error or a return: the report made, and the
\* finally clause closing client_socket
HandlerClose(r, report, why) ==
  /\ rcv' = [r EXCEPT !.pc = "closed", !.report = report,
                      !.err = IF why = "none" THEN @ ELSE why]
  /\ rOpen' = FALSE

\* MetadataTooLarge accepting every length
MetadataTooLargeNever(metadata_size) == FALSE

\* handle_client 195-197: the cap on the declared length
MetadataTooLarge(metadata_size) == metadata_size > METADATA_LIMIT

\* recv_exact when fewer bytes come than asked for: recv times out while the
\* peer is connected, else the empty read makes recv_exact return None
ShortRead == IF sOpen THEN "timeout" ELSE "nometa"

\* handle_client 185-206: read and parse the manifest.  The frame leaves the
\* connection with the handler; body_read is what recv_exact took of its body.
HandleMeta ==
  /\ rcv.pc = "meta" /\ connected
  /\ IF metaq # <<>>
     THEN LET f == Head(metaq) IN
          /\ metaq' = Tail(metaq)
          /\ IF f.prefix < 4
             THEN HandlerClose(rcv, "error", ShortRead)
             ELSE IF MetadataTooLarge(f.metadata_size)
             THEN HandlerClose(rcv, "error", "toolarge")
             ELSE IF f.got < f.metadata_size
             THEN HandlerClose([rcv EXCEPT !.body_read = f.got], "error", ShortRead)
             ELSE IF f.metadata_size = 0
             THEN HandlerClose(rcv, "error", "nometa")
             ELSE IF f.json = "invalid"
             THEN HandlerClose([rcv EXCEPT !.body_read = f.got], "error", "badjson")
             ELSE /\ rcv' = [rcv EXCEPT !.pc = "algo", !.metadata = f.value,
                                        !.body_read = f.got]
                  /\ UNCHANGED rOpen
     ELSE /\ HandlerClose(rcv, "error", ShortRead)
          /\ UNCHANGED metaq
  /\ UNCHANGED <<cfgv, auxv, snd, connected, sOpen, s2r, r2s, wire, failed_validations, fsv, pf, srvv>>

\* AlgoMismatch comparing the sender's algorithm with itself
AlgoMismatchNever(sender_algo) == Lower(sender_algo) # Lower(sender_algo)

\* handle_client 218-219: the test on the manifest's hash algorithm
AlgoMismatch(sender_algo) == Lower(sender_algo) # Lower(rAlgo)

\* handle_client 217-250: the reply to the manifest, and the dispatch
HandleAlgo ==
  /\ rcv.pc = "algo"
  /\ \E o \in RSendOutcomes :
       IF /\ Get(rcv.metadata, "hash_algorithm", "None") # "None"
          /\ AlgoMismatch(Get(rcv.metadata, "hash_algorithm", "None"))
          /\ ~skip
       THEN /\ HandlerClose(rcv, "rejected", "mismatch")
            /\ IF o = "raise" THEN UNCHANGED <<r2s, wire>>
               ELSE Written(o, MISMATCH, "MISMATCH")
       ELSE IF o = "raise"
            THEN HandlerClose(rcv, "error", "ack1") /\ UNCHANGED <<r2s, wire>>
            ELSE /\ Written(o, ACK1, "ACK1")
                 /\ IF Get(rcv.metadata, "type", "KeyError") \in {"file", "directory"}
                    THEN /\ rcv' = [rcv EXCEPT !.pc = IF rcv.metadata.type = "file"
                                                      THEN "rf_start" ELSE "rd_start"]
                         /\ UNCHANGED rOpen
                    ELSE HandlerClose(rcv, "error", "badtype")
  /\ UNCHANGED <<cfgv, auxv, snd, connected, sOpen, metaq, s2r, failed_validations, fsv, pf, srvv>>

\* HashValid without the SKIP_HASH_VERIFICATION early return
HashValidNoSkip(content, expected_hash) ==
  calculate_file_hash(rAlgo, content) = expected_hash

\* receiver.py _verify_file_hash: the verdict, and the record appended on a
\* mismatch (digests cut to 16 characters there; kept whole here)
HashValid(content, expected_hash) ==
  skip \/ calculate_file_hash(rAlgo, content) = expected_hash

_verify_file_hash(content, expected_hash) ==
  IF HashValid(content, expected_hash) THEN failed_validations
  ELSE Append(failed_validations,
              [file |-> "temp", expected |-> expected_hash,
               received |-> calculate_file_hash(rAlgo, content)])

\* FileCleanup with the removal of the temp file left out
FileCleanupKeepsTemp ==
  /\ tmp' = tmp
  /\ fin' = IF fin.kind = "file" THEN NoEntry ELSE fin

\* receive_file 365-378: the except clause: the temp file is removed, and so is
\* whatever file is at the final path (os.remove of a directory fails, ignored)
FileCleanup ==
  /\ tmp' = NoTemp
  /\ fin' = IF fin.kind = "file" THEN NoEntry ELSE fin

FileFail(why) ==
  /\ FileCleanup
  /\ rcv' = [rcv EXCEPT !.pc = "hc_end", !.err = why]

\* the manifest has every one of the keys
HasKeys(m, keys) == keys \subseteq DOMAIN m

\* receive_file 317-338: file_info['name'] and ['size'] are read before the
\* try (a KeyError goes up to handle_client), then the temp file is made
RecvFileStart ==
  /\ rcv.pc = "rf_start"
  /\ IF HasKeys(rcv.metadata, {"name", "size"})
     THEN /\ \/ /\ tmp' = [kind |-> "file", files |-> <<<<>>>>]
                /\ rcv' = [rcv EXCEPT !.pc = "rf_recv", !.received = 0]
                /\ UNCHANGED fin
             \/ FileFail("disk")
          /\ UNCHANGED rOpen
     ELSE /\ HandlerClose(rcv, "error", "keyerror")
          /\ UNCHANGED fsv
  /\ UNCHANGED <<cfgv, auxv, snd, connected, sOpen, metaq, s2r, r2s, wire, failed_validations,
                 pf, srvv>>

\* receive_file 343-349: one pass of the receive loop
RecvFileChunk ==
  /\ rcv.pc = "rf_recv"
  /\ rcv.received < rcv.metadata.size
  /\ \E c \in RecvOutcomes(Min(BUFFER_SIZE, rcv.metadata.size - rcv.received)) :
       IF c.what # "data"
       THEN FileFail(c.what) /\ UNCHANGED s2r
       ELSE /\ s2r' = Drop(s2r, Len(c.data))
            /\ \/ /\ tmp' = [tmp EXCEPT !.files[1] = @ \o c.data]
                  /\ rcv' = [rcv EXCEPT !.received = @ + Len(c.data)]
                  /\ UNCHANGED fin
               \/ FileFail("disk")
  /\ UNCHANGED <<cfgv, auxv, snd, connected, sOpen, rOpen, metaq, r2s, wire, failed_validations, pf, srvv>>

\* receive_file 351-352: after the loop, the hash verification
RecvFileVerify ==
  /\ rcv.pc = "rf_recv"
  /\ rcv.received >= rcv.metadata.size
  /\ IF HasKeys(rcv.metadata, {"hash"})
     THEN /\ failed_validations' = _verify_file_hash(tmp.files[1], rcv.metadata.hash)
          /\ rcv' = [rcv EXCEPT !.pc = "rf_move", !.hash_computed = ~skip,
                                !.hash_valid = HashValid(tmp.files[1], rcv.metadata.hash)]
          /\ UNCHANGED fsv
     ELSE /\ FileFail("keyerror")
          /\ UNCHANGED failed_validations
  /\ UNCHANGED <<cfgv, auxv, snd, netv, pf, srvv>>

\* receive_file 358-361, receive_directory 511-514: the status line shown for
\* a received file
StatusShown(hash_valid) == IF hash_valid THEN "verified" ELSE "failed"

\* shutil.move(temp, final) of a temp file: renamed over a file or onto a free
\* name; moved INTO the destination when that is an existing directory
MoveFile(t, f) ==
  IF f.kind = "dir" THEN [f EXCEPT !.nested = TRUE]
  ELSE [kind |-> "file", own |-> "new", files |-> t.files, nested |-> FALSE]

\* receive_file 355-361: the move, then the message "File received and
\* verified" or "integrity check failed" according to hash_valid
RecvFileMove ==
  /\ rcv.pc = "rf_move"
  /\ \/ /\ fin' = MoveFile(tmp, fin)
        /\ tmp' = NoTemp
        /\ rcv' = [rcv EXCEPT !.pc = "rf_done", !.shown = StatusShown(rcv.hash_valid)]
     \/ FileFail("finalize")
  /\ UNCHANGED <<cfgv, auxv, snd, netv, failed_validations, pf, srvv>>

\* receive_file 363: the final token; a failing send runs the except clause
\* with temp_filepath already cleared
RecvFileDone ==
  /\ rcv.pc = "rf_done"
  /\ \E o \in RSendOutcomes :
       IF o = "raise"
       THEN /\ fin' = IF fin.kind = "file" THEN NoEntry ELSE fin
            /\ rcv' = [rcv EXCEPT !.pc = "hc_end", !.err = "done"]
            /\ UNCHANGED <<r2s, wire, tmp>>
       ELSE /\ Written(o, DONE, "DONE")
            /\ rcv' = [rcv EXCEPT !.pc = "hc_end"]
            /\ UNCHANGED fsv
  /\ UNCHANGED <<cfgv, auxv, snd, connected, sOpen, rOpen, metaq, s2r, failed_validations, pf, srvv>>

\* handle_client 252-276: receive_file / receive_directory came back without
\* raising: the completion report, then the finally clause
HandleEnd ==
  /\ rcv.pc = "hc_end"
  /\ HandlerClose(rcv, "completed", "none")
  /\ UNCHANGED <<cfgv, auxv, snd, connected, sOpen, metaq, s2r, r2s, wire, failed_validations, fsv, pf, srvv>>

\* receive_directory 407: free_space < required_space * 1.1, the product an
\* IEEE-754 double.  1.1 is the double (11 * 2^52 + 4) / (10 * 2^52), so the
\* exact product is 1.1 * T + 4T / (10 * 2^52); it rounds (to nearest, ties to
\* even) to a double above the integer free exactly when 11T > 10 free, or
\* 11T = 10 free and the excess 4T / (10 * 2^52) is more than half the spacing
\* 2^(e-52) of the doubles at free, 2^e the largest power of two <= free.
RECURSIVE Pow2Floor(_)
Pow2Floor(n) == IF n < 2 THEN 1 ELSE 2 * Pow2Floor(n \div 2)

\* SpaceInsufficient with <= for <
SpaceInsufficientInclusive(free_space, required_space) ==
  10 * free_space <= 11 * required_space

SpaceInsufficient(free_space, required_space) ==
  LET d == 11 * required_space - 10 * free_space
  IN IF d > 0 THEN TRUE
     ELSE IF d < 0 THEN FALSE
     ELSE free_space > 0 /\ 4 * required_space > 5 * Pow2Floor(free_space)

\* DirFail with the finally clause left out
DirFailKeepsTemp(why) ==
  /\ tmp' = tmp
  /\ rcv' = [rcv EXCEPT !.pc = "hc_end", !.err = why]

\* receive_directory 555-563: the finally clause removes the temp directory
DirFail(why) ==
  /\ tmp' = NoTemp
  /\ rcv' = [rcv EXCEPT !.pc = "hc_end", !.err = why]

\* RecvDirPreflight with mkdtemp done before the free-space test
RecvDirPreflightTempFirst ==
  /\ rcv.pc = "rd_start"
  /\ tmp' = [kind |-> "dir", files |-> <<>>]
  /\ IF free # FreeUnknown /\ SpaceInsufficient(free, rcv.metadata.total_size)
     THEN /\ \E o \in RSendOutcomes :
               IF o = "raise" THEN UNCHANGED <<r2s, wire>>
               ELSE Written(o, SPACE_ERROR, "SPACE_ERROR")
          /\ rcv' = [rcv EXCEPT !.pc = "hc_end", !.err = "space"]
     ELSE /\ UNCHANGED <<r2s, wire>>
          /\ rcv' = [rcv EXCEPT !.i = 1, !.files_completed = 0,
                                !.pc = IF rcv.metadata.files = <<>>
                                       THEN "rd_finalize" ELSE "rd_entry"]
  /\ UNCHANGED <<cfgv, auxv, snd, connected, sOpen, rOpen, metaq, s2r, failed_validations, fin, pf, srvv>>

\* receive_directory 388-435: dir_info['name'], ['total_files'] and
\* ['total_size'] are read before the first try (a KeyError goes up to
\* handle_client); the disk-space preflight; then mkdtemp and, inside the
\* second try, dir_info['files']
RecvDirPreflight ==
  /\ rcv.pc = "rd_start"
  /\ IF ~HasKeys(rcv.metadata, {"name", "total_files", "total_size"})
     THEN /\ HandlerClose(rcv, "error", "keyerror")
          /\ UNCHANGED <<r2s, wire, tmp>>
     ELSE /\ UNCHANGED rOpen
          /\ IF free # FreeUnknown /\ SpaceInsufficient(free, rcv.metadata.total_size)
             THEN /\ \E o \in RSendOutcomes :
                       IF o = "raise" THEN UNCHANGED <<r2s, wire>>
                       ELSE Written(o, SPACE_ERROR, "SPACE_ERROR")
                  /\ rcv' = [rcv EXCEPT !.pc = "hc_end", !.err = "space"]
                  /\ UNCHANGED tmp
             ELSE /\ UNCHANGED <<r2s, wire>>
                  /\ IF HasKeys(rcv.metadata, {"files"})
                     THEN \/ /\ tmp' = [kind |-> "dir", files |-> <<>>]
                             /\ rcv' = [rcv EXCEPT !.i = 1, !.files_completed = 0,
                                                   !.pc = IF rcv.metadata.files = <<>>
                                                          THEN "rd_finalize" ELSE "rd_entry"]
                          \/ DirFail("disk")
                     ELSE DirFail("keyerror")
  /\ UNCHANGED <<cfgv, auxv, snd, connected, sOpen, metaq, s2r, failed_validations, fin, pf, srvv>>

\* receive_directory 446-458: parent directories, open(file_path, 'wb')
RecvDirEntry ==
  /\ rcv.pc = "rd_entry"
  /\ \/ /\ tmp' = [tmp EXCEPT !.files = Append(@, <<>>)]
        /\ rcv' = [rcv EXCEPT !.pc = "rd_recv", !.received = 0,
                              !.order = Append(@, rcv.metadata.files[rcv.i].path)]
     \/ DirFail("disk")
  /\ UNCHANGED <<cfgv, auxv, snd, netv, failed_validations, fin, pf, srvv>>

\* receive_directory 460-493: one pass of the receive loop of entry i
RecvDirChunk ==
  /\ rcv.pc = "rd_recv"
  /\ rcv.received < rcv.metadata.files[rcv.i].size
  /\ \E c \in RecvOutcomes(Min(BUFFER_SIZE, rcv.metadata.files[rcv.i].size - rcv.received)) :
       IF c.what # "data"
       THEN DirFail(c.what) /\ UNCHANGED s2r
       ELSE /\ s2r' = Drop(s2r, Len(c.data))
            /\ \/ /\ tmp' = [tmp EXCEPT !.files[rcv.i] = @ \o c.data]
                  /\ rcv' = [rcv EXCEPT !.received = @ + Len(c.data)]
               \/ DirFail("disk")
  /\ UNCHANGED <<cfgv, auxv, snd, connected, sOpen, rOpen, metaq, r2s, wire, failed_validations, fin, pf, srvv>>

\* RecvDirCheck reached before the entry is fully read, with no size check
RecvDirCheckUnread ==
  /\ rcv.pc = "rd_recv"
  /\ rcv' = [rcv EXCEPT !.pc = "rd_ack", !.size_ok = rcv.i, !.hash_valid = TRUE]
  /\ UNCHANGED <<cfgv, auxv, snd, netv, failed_validations, fsv, pf, srvv>>

\* receive_directory 495-514: the size check, the hash check of an entry
\* that carries a hash, and the status line "Hash Verified" or "Failed hash
\* check"
RecvDirCheck ==
  /\ rcv.pc = "rd_recv"
  /\ rcv.received >= rcv.metadata.files[rcv.i].size
  /\ LET file_info == rcv.metadata.files[rcv.i]
         content == tmp.files[rcv.i]
     IN IF Len(content) # file_info.size
        THEN DirFail("size") /\ UNCHANGED failed_validations
        ELSE /\ IF "hash" \in DOMAIN file_info /\ ~skip
                THEN /\ failed_validations' = _verify_file_hash(content, file_info.hash)
                     /\ rcv' = [rcv EXCEPT !.pc = "rd_ack", !.size_ok = rcv.i,
                                           !.hash_computed = TRUE,
                                           !.hash_valid = HashValid(content, file_info.hash),
                                           !.shown = StatusShown(HashValid(content, file_info.hash))]
                ELSE /\ rcv' = [rcv EXCEPT !.pc = "rd_ack", !.size_ok = rcv.i,
                                           !.hash_computed = FALSE,
                                           !.hash_valid = TRUE, !.shown = StatusShown(TRUE)]
                     /\ UNCHANGED failed_validations
             /\ UNCHANGED tmp
  /\ UNCHANGED <<cfgv, auxv, snd, netv, fin, pf, srvv>>

\* receive_directory 517-522: ACK2 for entry i, then the next entry
RecvDirAck2 ==
  /\ rcv.pc = "rd_ack"
  /\ \E o \in RSendOutcomes :
       IF o = "raise"
       THEN DirFail("ack2") /\ UNCHANGED <<r2s, wire>>
       ELSE /\ Written(o, ACK2, "ACK2")
            /\ rcv' = [rcv EXCEPT !.files_completed = @ + 1, !.i = @ + 1,
                                  !.pc = IF rcv.i + 1 > Len(rcv.metadata.files)
                                         THEN "rd_finalize" ELSE "rd_entry"]
            /\ UNCHANGED tmp
  /\ UNCHANGED <<cfgv, auxv, snd, connected, sOpen, rOpen, metaq, s2r, failed_validations, fin, pf, srvv>>

\* shutil.move(temp_dir, download_dir) onto a free name
MoveDir(t) == [kind |-> "dir", own |-> "new", files |-> t.files, nested |-> FALSE]

\* receive_directory 528-534: remove what is at the final path, move the temp
\* directory there.  rmtree of a file raises; rmtree or move may fail
RecvDirFinalize ==
  /\ rcv.pc = "rd_finalize"
  /\ \/ /\ fin.kind # "file"
        /\ fin' = MoveDir(tmp)
        /\ tmp' = NoTemp
        /\ rcv' = [rcv EXCEPT !.pc = "rd_done"]
     \/ /\ fin.kind = "file"
        /\ DirFail("finalize")
        /\ UNCHANGED fin
     \/ /\ fin.kind # "file"
        /\ DirFail("finalize")
        /\ fin' \in {fin, NoEntry}
  /\ UNCHANGED <<cfgv, auxv, snd, netv, failed_validations, pf, srvv>>

\* receive_directory 536-543: the final token; a failing send is reported and
\* the directory stays published
RecvDirDone ==
  /\ rcv.pc = "rd_done"
  /\ \E o \in RSendOutcomes :
       IF o = "raise"
       THEN /\ rcv' = [rcv EXCEPT !.pc = "hc_end", !.err = "done"]
            /\ UNCHANGED <<r2s, wire>>
       ELSE /\ Written(o, DONE, "DONE")
            /\ rcv' = [rcv EXCEPT !.pc = "hc_end"]
  /\ UNCHANGED <<cfgv, auxv, snd, connected, sOpen, rOpen, metaq, s2r, failed_validations, fsv, pf, srvv>>

\* ------------------------------------------------------ specification
Sender ==
  \/ SendStart \/ SendConnect \/ SendMeta \/ SendAck1 \/ SendFileChunk
  \/ SendWaitDone \/ SendDirProbe \/ SendDirChunk \/ SendDirAck2 \/ SenderCrash

Receiver ==
  \/ HandleMeta \/ HandleAlgo \/ HandleEnd
  \/ RecvFileStart \/ RecvFileChunk \/ RecvFileVerify \/ RecvFileMove \/ RecvFileDone
  \/ RecvDirPreflight \/ RecvDirEntry \/ RecvDirChunk \/ RecvDirCheck \/ RecvDirAck2
  \/ RecvDirFinalize \/ RecvDirDone

Next == Sender \/ Receiver

Spec == Init /\ [][Next]_vars

\* the statements of send_file / send_directory, the crash of the sending
\* process left out
SenderRuns ==
  \/ SendStart \/ SendConnect \/ SendMeta \/ SendAck1 \/ SendFileChunk
  \/ SendWaitDone \/ SendDirProbe \/ SendDirChunk \/ SendDirAck2

\* the sender's thread and the handler's thread each run while they can: a
\* call that has returned, or timed out, is followed by the next statement
\* every source of Init, between two sides of one configuration and with
\* nothing at the final path
LiveInit ==
  /\ Init
  /\ sAlgo = "sha256" /\ rAlgo = "sha256" /\ skip = FALSE
  /\ fin0 = NoEntry /\ free = FreeUnknown

SpecLive == LiveInit /\ [][Next]_vars /\ WF_vars(SenderRuns) /\ WF_vars(Receiver)

\* the disk-space preflight alone, over totals and free spaces around the
\* 1.1 boundary
PreflightInit ==
  /\ kind = "directory" /\ sAlgo = "sha256" /\ rAlgo = "sha256" /\ skip = FALSE
  /\ src = <<>> /\ free = FreeUnknown
  /\ fin0 = NoEntry /\ fin = NoEntry /\ tmp = NoTemp
  /\ snd = SndInit /\ rcv = RcvInit
  /\ connected = FALSE /\ sOpen = FALSE /\ rOpen = FALSE
  /\ metaq = <<>> /\ s2r = <<>> /\ r2s = <<>> /\ wire = <<>>
  /\ failed_validations = <<>>
  /\ pf \in [total : 0..MaxPfTotal, free : 0..MaxPfFree, out : {"none"}]
  /\ raw = NoFrame
  /\ ServerUp /\ AuxIdle

Preflight ==
  /\ pf.out = "none"
  /\ pf' = [pf EXCEPT !.out = IF SpaceInsufficient(pf.free, pf.total)
                               THEN "SPACE_ERROR" ELSE "proceed"]
  /\ UNCHANGED <<cfgv, auxv, snd, rcv, netv, failed_validations, fsv, srvv>>

SpecPreflight == PreflightInit /\ [][Preflight]_vars

\* -------------------------------------------------------------- server
\* stop_server closing the accepted client socket along with the listening one
stop_serverClosesClients(c) ==
  CASE c.pc = "s170" ->
         [call |-> [c EXCEPT !.pc = "s171"],
          control |-> [server_control EXCEPT !.running = FALSE],
          lsock |-> lsock, client |-> rOpen]
    [] c.pc = "s171" ->
         [call |-> [c EXCEPT !.socket_to_close = server_control.socket,
                             !.pc = IF server_control.socket # "None" THEN "s174" ELSE "return"],
          control |-> server_control, lsock |-> lsock, client |-> rOpen]
    [] c.pc = "s174" ->
         [call |-> [c EXCEPT !.pc = "return"],
          control |-> [server_control EXCEPT !.socket = "None"],
          lsock |-> "closed", client |-> FALSE]

\* receiver.py stop_server, one statement at a time, for the activation c:
\* what the statement leaves in the activation, in server_control, of the
\* listening socket and of the accepted client socket
stop_server(c) ==
  CASE c.pc = "s170" ->
         [call |-> [c EXCEPT !.pc = "s171"],
          control |-> [server_control EXCEPT !.running = FALSE],
          lsock |-> lsock, client |-> rOpen]
    [] c.pc = "s171" ->
         [call |-> [c EXCEPT !.socket_to_close = server_control.socket,
                             !.pc = IF server_control.socket # "None" THEN "s174" ELSE "return"],
          control |-> server_control, lsock |-> lsock, client |-> rOpen]
    [] c.pc = "s174" ->
         [call |-> [c EXCEPT !.pc = "return"],
          control |-> [server_control EXCEPT !.socket = "None"],
          lsock |-> "closed", client |-> rOpen]

StopRunning(c) == c.pc \in {"s170", "s171", "s174"}
NewCall == [pc |-> "s170", socket_to_close |-> "None", entry |-> server_control,
            handler |-> IF connected THEN rcv.pc ELSE "none"]

\* ---- the UI thread: main.py receive_mode, then main()'s finally clause
\* receive_mode 262-266: stop a server that is still running
CallerEnter ==
  /\ caller.pc = "idle" /\ server_lock = "free"
  /\ IF server_control.running
     THEN /\ server_lock' = "caller"
          /\ caller' = [caller EXCEPT !.pc = "pre_stop", !.call = NewCall]
     ELSE /\ caller' = [caller EXCEPT !.pc = "clear"]
          /\ UNCHANGED server_lock
  /\ UNCHANGED <<cfgv, auxv, snd, rcv, netv, failed_validations, fsv, pf,
                 server_control, server_ready, lsock, thr, stopper>>

\* a statement of the stop_server the UI thread called, the lock held
CallerStop ==
  /\ caller.pc \in {"pre_stop", "fin_stop", "exit_stop"} /\ StopRunning(caller.call)
  /\ LET r == stop_server(caller.call) IN
       /\ caller' = [caller EXCEPT !.call = r.call]
       /\ server_control' = r.control /\ lsock' = r.lsock /\ rOpen' = r.client
  /\ UNCHANGED <<cfgv, auxv, snd, rcv, connected, sOpen, metaq, s2r, r2s, wire, failed_validations,
                 fsv, pf, server_ready, server_lock, thr, stopper>>

\* stop_server returned: the with block ends and the lock is released
CallerStopReturn ==
  /\ caller.pc \in {"pre_stop", "fin_stop", "exit_stop"} /\ caller.call.pc = "return"
  /\ server_lock' = "free"
  /\ caller' = [caller EXCEPT
                  !.call = [caller.call EXCEPT !.pc = "none"],
                  !.pc = CASE caller.pc = "pre_stop" -> "clear"
                           [] caller.pc = "fin_stop" -> "returned"
                           [] caller.pc = "exit_stop" -> "exited",
                  !.result = IF caller.pc = "fin_stop" THEN "stopped" ELSE @]
  /\ UNCHANGED <<cfgv, auxv, snd, rcv, netv, failed_validations, fsv, pf,
                 server_control, server_ready, lsock, thr, stopper>>

\* receive_mode 272
CallerClear ==
  /\ caller.pc = "clear"
  /\ server_ready' = FALSE
  /\ caller' = [caller EXCEPT !.pc = "spawn"]
  /\ UNCHANGED <<cfgv, auxv, snd, rcv, netv, failed_validations, fsv, pf,
                 server_control, server_lock, lsock, thr, stopper>>

\* receive_mode 275-280: the server thread starts in start_server_wrapper
CallerSpawn ==
  /\ caller.pc = "spawn" /\ thr.pc = "idle"
  /\ thr' = [thr EXCEPT !.pc = "test"]
  /\ caller' = [caller EXCEPT !.pc = "wait"]
  /\ UNCHANGED <<cfgv, auxv, snd, rcv, netv, failed_validations, fsv, pf,
                 server_control, server_ready, server_lock, lsock, stopper>>

\* receive_mode 287-291: server_ready.wait(timeout=10.0)
CallerWait ==
  /\ caller.pc = "wait"
  /\ caller' = IF server_ready THEN [caller EXCEPT !.pc = "post_check"]
               ELSE [caller EXCEPT !.pc = "returned", !.result = "timeout"]
  /\ UNCHANGED <<cfgv, auxv, snd, rcv, netv, failed_validations, fsv, pf,
                 server_control, server_ready, server_lock, lsock, thr, stopper>>

\* receive_mode 294-297: the read of running after the wait, under the lock
CallerPostCheck ==
  /\ caller.pc = "post_check" /\ server_lock = "free"
  /\ caller' = IF server_control.running THEN [caller EXCEPT !.pc = "ui_loop"]
               ELSE [caller EXCEPT !.pc = "returned", !.result = "failed"]
  /\ UNCHANGED <<cfgv, auxv, snd, rcv, netv, failed_validations, fsv, pf,
                 server_control, server_ready, server_lock, lsock, thr, stopper>>

\* receive_mode 311-320: the loop ends when running is false or Q is pressed
CallerLoop ==
  /\ caller.pc = "ui_loop" /\ server_lock = "free"
  /\ caller' = [caller EXCEPT !.pc = "finally"]
  /\ UNCHANGED <<cfgv, auxv, snd, rcv, netv, failed_validations, fsv, pf,
                 server_control, server_ready, server_lock, lsock, thr, stopper>>

\* receive_mode 334-338: the finally clause
CallerFinally ==
  /\ caller.pc = "finally" /\ server_lock = "free"
  /\ IF server_control.running
     THEN /\ server_lock' = "caller"
          /\ caller' = [caller EXCEPT !.pc = "fin_stop", !.call = NewCall]
     ELSE /\ caller' = [caller EXCEPT !.pc = "returned", !.result = "stopped"]
          /\ UNCHANGED server_lock
  /\ UNCHANGED <<cfgv, auxv, snd, rcv, netv, failed_validations, fsv, pf,
                 server_control, server_ready, lsock, thr, stopper>>

\* main.py 44-48: main()'s finally clause when the program ends
CallerExit ==
  /\ caller.pc = "returned" /\ server_lock = "free"
  /\ IF server_control.running
     THEN /\ server_lock' = "caller"
          /\ caller' = [caller EXCEPT !.pc = "exit_stop", !.call = NewCall]
     ELSE /\ caller' = [caller EXCEPT !.pc = "exited"]
          /\ UNCHANGED server_lock
  /\ UNCHANGED <<cfgv, auxv, snd, rcv, netv, failed_validations, fsv, pf,
                 server_control, server_ready, lsock, thr, stopper>>

Caller ==
  \/ CallerEnter \/ CallerStop \/ CallerStopReturn \/ CallerClear \/ CallerSpawn
  \/ CallerWait \/ CallerPostCheck \/ CallerLoop \/ CallerFinally \/ CallerExit

\* ---- the server thread: main.py start_server_wrapper, receiver.py start_server
\* start_server_wrapper 358-363: bind, listen and close a test socket; a
\* failure goes to the except clause at 371-375
SrvTestBind ==
  /\ thr.pc = "test"
  /\ \/ /\ thr' = [thr EXCEPT !.pc = "ready"]
        /\ UNCHANGED server_control
     \/ /\ thr' = [thr EXCEPT !.pc = "exit"]
        /\ server_control' = [server_control EXCEPT !.running = FALSE]
  /\ UNCHANGED <<cfgv, auxv, snd, rcv, netv, failed_validations, fsv, pf,
                 server_ready, server_lock, lsock, caller, stopper>>

\* start_server_wrapper 366
SrvReady ==
  /\ thr.pc = "ready"
  /\ server_ready' = TRUE
  /\ thr' = [thr EXCEPT !.pc = "bind"]
  /\ UNCHANGED <<cfgv, auxv, snd, rcv, netv, failed_validations, fsv, pf,
                 server_control, server_lock, lsock, caller, stopper>>

\* start_server 101-102: create_server_socket and listen; an OSError goes to
\* 148-158, and the finally clause finds server_socket None
SrvBind ==
  /\ thr.pc = "bind"
  /\ \/ /\ lsock' = "open"
        /\ thr' = [thr EXCEPT !.pc = "setrun", !.server_socket = "s", !.bind = "ok"]
        /\ UNCHANGED server_control
     \/ /\ thr' = [thr EXCEPT !.pc = "exit", !.bind = "failed"]
        /\ server_control' = [server_control EXCEPT !.running = FALSE]
        /\ UNCHANGED lsock
  /\ UNCHANGED <<cfgv, auxv, snd, rcv, netv, failed_validations, fsv, pf,
                 server_ready, server_lock, caller, stopper>>

\* start_server 103
SrvSetRunning ==
  /\ thr.pc = "setrun"
  /\ server_control' = [server_control EXCEPT !.running = TRUE]
  /\ thr' = [thr EXCEPT !.pc = "setsock"]
  /\ UNCHANGED <<cfgv, auxv, snd, rcv, netv, failed_validations, fsv, pf,
                 server_ready, server_lock, lsock, caller, stopper>>

\* start_server 104
SrvSetSocket ==
  /\ thr.pc = "setsock"
  /\ server_control' = [server_control EXCEPT !.socket = thr.server_socket]
  /\ thr' = [thr EXCEPT !.pc = "loop"]
  /\ UNCHANGED <<cfgv, auxv, snd, rcv, netv, failed_validations, fsv, pf,
                 server_ready, server_lock, lsock, caller, stopper>>

\* start_server 116: while server_control['running']
SrvLoop ==
  /\ thr.pc = "loop"
  /\ thr' = [thr EXCEPT !.pc = IF server_control.running THEN "accept" ELSE "summary"]
  /\ UNCHANGED <<cfgv, auxv, snd, rcv, netv, failed_validations, fsv, pf,
                 server_control, server_ready, server_lock, lsock, caller, stopper>>

\* start_server 118-119, 132-133: accept times out on the open socket
SrvAcceptTimeout ==
  /\ thr.pc = "accept" /\ lsock = "open"
  /\ thr' = [thr EXCEPT !.pc = "loop"]
  /\ UNCHANGED <<cfgv, auxv, snd, rcv, netv, failed_validations, fsv, pf,
                 server_control, server_ready, server_lock, lsock, caller, stopper>>

\* start_server 134-142: settimeout or accept on the closed socket raises,
\* and the loop is left by break
SrvAcceptError ==
  /\ thr.pc = "accept" /\ lsock = "closed"
  /\ thr' = [thr EXCEPT !.pc = "summary"]
  /\ UNCHANGED <<cfgv, auxv, snd, rcv, netv, failed_validations, fsv, pf,
                 server_control, server_ready, server_lock, lsock, caller, stopper>>

\* start_server 118-130, 134-142: accept on the open socket, or the start of
\* the handler thread, raises while the server is meant to run; the except
\* clause shows the error and leaves the loop by break
SrvAcceptFault ==
  /\ thr.pc = "accept" /\ lsock = "open"
  /\ thr' = [thr EXCEPT !.pc = "summary"]
  /\ UNCHANGED <<cfgv, auxv, snd, rcv, netv, failed_validations, fsv, pf,
                 server_control, server_ready, server_lock, lsock, caller, stopper>>

\* start_server 144-146: after the loop, the validation summary shows the
\* records that are in the failed-validations list at that moment
SrvSummary ==
  /\ thr.pc = "summary"
  /\ thr' = [thr EXCEPT !.pc = "finally", !.summary = failed_validations]
  /\ UNCHANGED <<cfgv, auxv, snd, rcv, netv, failed_validations, fsv, pf,
                 server_control, server_ready, server_lock, lsock, caller, stopper>>

\* start_server 159-167: the finally clause
SrvFinally ==
  /\ thr.pc = "finally"
  /\ thr' = [thr EXCEPT !.pc = "exit"]
  /\ IF thr.server_socket # "None" /\ server_control.socket = thr.server_socket
     THEN /\ lsock' = "closed"
          /\ server_control' = [server_control EXCEPT !.socket = "None"]
     ELSE UNCHANGED <<lsock, server_control>>
  /\ UNCHANGED <<cfgv, auxv, snd, rcv, netv, failed_validations, fsv, pf,
                 server_ready, server_lock, caller, stopper>>

ServerThread ==
  \/ SrvTestBind \/ SrvReady \/ SrvBind \/ SrvSetRunning \/ SrvSetSocket
  \/ SrvLoop \/ SrvAcceptTimeout \/ SrvAcceptError \/ SrvAcceptFault
  \/ SrvSummary \/ SrvFinally

\* ---- a thread that calls stop_server itself, at any moment
StopCall ==
  /\ stopper.call.pc = "none" /\ stopper.calls < MaxStopCalls
  /\ stopper' = [calls |-> stopper.calls + 1, at |-> thr.pc, call |-> NewCall]
  /\ UNCHANGED <<cfgv, auxv, snd, rcv, netv, failed_validations, fsv, pf,
                 server_control, server_ready, server_lock, lsock, thr, caller>>

StopperStep ==
  /\ StopRunning(stopper.call)
  /\ LET r == stop_server(stopper.call) IN
       /\ stopper' = [stopper EXCEPT !.call = r.call]
       /\ server_control' = r.control /\ lsock' = r.lsock /\ rOpen' = r.client
  /\ UNCHANGED <<cfgv, auxv, snd, rcv, connected, sOpen, metaq, s2r, r2s, wire, failed_validations,
                 fsv, pf, server_ready, server_lock, thr, caller>>

StopperReturn ==
  /\ stopper.call.pc = "return"
  /\ stopper' = [stopper EXCEPT !.call = NoCall]
  /\ UNCHANGED <<cfgv, auxv, snd, rcv, netv, failed_validations, fsv, pf,
                 server_control, server_ready, server_lock, lsock, thr, caller>>

Stopper == StopCall \/ StopperStep \/ StopperReturn

\* the start and stop of the server, no client connecting
ServerInit ==
  /\ kind = "file" /\ sAlgo = "sha256" /\ rAlgo = "sha256" /\ skip = FALSE
  /\ src = <<[size |-> 0, disk |-> <<>>]>> /\ free = FreeUnknown
  /\ fin0 = NoEntry /\ fin = NoEntry /\ tmp = NoTemp
  /\ snd = SndInit /\ rcv = RcvInit
  /\ connected = FALSE /\ sOpen = FALSE /\ rOpen = FALSE
  /\ metaq = <<>> /\ s2r = <<>> /\ r2s = <<>> /\ wire = <<>>
  /\ failed_validations = <<>>
  /\ pf = PfIdle /\ raw = NoFrame
  /\ ServerDown /\ AuxIdle

ServerNext == Caller \/ ServerThread \/ Stopper

SpecServer == ServerInit /\ [][ServerNext]_vars

\* ---- a transfer against the running server, which the UI thread stops
\* start_server 117-130: accept returns the sender's connection and
\* handle_client starts in a thread of its own
SrvAccept ==
  /\ thr.pc = "accept" /\ lsock = "open" /\ snd.pc = "connect"
  /\ snd' = [snd EXCEPT !.pc = "prepare"]
  /\ connected' = TRUE /\ sOpen' = TRUE /\ rOpen' = TRUE
  /\ thr' = [thr EXCEPT !.pc = "loop"]
  /\ UNCHANGED <<cfgv, auxv, rcv, metaq, s2r, r2s, wire, failed_validations, fsv, pf,
                 server_control, server_ready, server_lock, lsock, caller, stopper>>

\* send_file 91-95 / send_directory 190-199: connect fails, as it does once
\* nothing listens on the port
SrvRefuse ==
  /\ snd.pc = "connect" /\ lsock # "open"
  /\ SndReturn(snd, FALSE, "connect")
  /\ UNCHANGED <<cfgv, auxv, rcv, connected, rOpen, metaq, s2r, r2s, wire, failed_validations,
                 fsv, pf, srvv>>

\* the transfers made while the server is stopped: a one-byte file, intact or
\* changed since it was hashed, and a directory of a one-byte and an empty file
StopSources(k) ==
  IF k = "file" THEN {<<[size |-> 1, disk |-> d]>> : d \in {<<0>>, <<1>>}}
  ELSE {<<[size |-> 1, disk |-> <<0>>], [size |-> 0, disk |-> <<>>]>>}

StopInit ==
  /\ kind \in {"file", "directory"}
  /\ sAlgo = "sha256" /\ rAlgo = "sha256" /\ skip = FALSE
  /\ src \in StopSources(kind)
  /\ free = FreeUnknown
  /\ fin0 = NoEntry /\ fin = NoEntry /\ tmp = NoTemp
  /\ snd = SndInit /\ rcv = RcvInit
  /\ connected = FALSE /\ sOpen = FALSE /\ rOpen = FALSE
  /\ metaq = <<>> /\ s2r = <<>> /\ r2s = <<>> /\ wire = <<>>
  /\ failed_validations = <<>>
  /\ pf = PfIdle /\ raw = NoFrame
  /\ ServerUp /\ AuxIdle

StopNext ==
  \/ SendStart \/ SrvAccept \/ SrvRefuse \/ SendMeta \/ SendAck1 \/ SendFileChunk
  \/ SendWaitDone \/ SendDirProbe \/ SendDirChunk \/ SendDirAck2 \/ SenderCrash
  \/ Receiver
  \/ CallerLoop \/ CallerFinally \/ CallerStop \/ CallerStopReturn
  \/ SrvLoop \/ SrvAcceptTimeout \/ SrvAcceptError \/ SrvAcceptFault
  \/ SrvSummary \/ SrvFinally

SpecStop == StopInit /\ [][StopNext]_vars

\* ------------------------------------------------------------- claims
Count(seq, x) == Cardinality({k \in 1..Len(seq) : seq[k] = x})
OnWire(name) == \E k \in 1..Len(wire) : wire[k] = name
ReceiveReturned == rcv.pc \in {"hc_end", "closed"}
IsFileReceive == rcv.metadata.type = "file"
IsDirReceive == rcv.metadata.type = "directory"
TrueMismatch == Lower(sAlgo) # Lower(rAlgo)

C2_DirReceiveAtomic ==
  IsDirReceive =>
    /\ (ReceiveReturned /\ rcv.err \in {"connlost", "network", "timeout", "disk", "size", "ack2"}) =>
         /\ tmp = NoTemp
         /\ fin = fin0
    /\ (fin.kind = "dir" /\ fin.own = "new") =>
         /\ Len(fin.files) = Len(rcv.metadata.files)
         /\ \A j \in 1..Len(fin.files) : Len(fin.files[j]) = rcv.metadata.files[j].size

\* C2 witness: the second entry failed after the first was acknowledged, over
\* an existing directory of that name
C2_Witness ==
  /\ IsDirReceive /\ ReceiveReturned /\ rcv.err = "connlost"
  /\ rcv.i = 2 /\ rcv.files_completed = 1
  /\ fin0 = OldDir

\* C3: the sender returns success only from the completion phase with DONE
\* read, DONE written by the receiver and, for a directory, an ACK2 read for
\* every entry; a timeout, an empty read or other bytes at the completion phase
\* give failure.
C3_SuccessOnlyOnDone ==
  /\ snd.result = "true" =>
       /\ snd.at = "waitdone" /\ snd.response = DONE
       /\ OnWire("DONE")
       /\ kind = "directory" => snd.acks = Len(src)
  /\ (snd.pc = "returned" /\ snd.at = "waitdone" /\ snd.response # DONE) =>
       snd.result = "false"

\* C3 witness: every payload byte sent and the file published, yet the wait
\* for DONE timed out and the sender returned failure
C3_Witness ==
  /\ snd.pc = "returned" /\ snd.at = "waitdone" /\ snd.response = TIMEOUT
  /\ snd.result = "false"
  /\ snd.sent_total = SumSizes(src) /\ snd.sent_total > 0
  /\ fin.own = "new"

\* C4: a DONE token on the wire implies that the file, or the whole directory,
\* of this transfer is at the final destination path.
C4_DoneImpliesPublished ==
  OnWire("DONE") =>
    /\ fin.own = "new"
    /\ fin.kind = IF IsFileReceive THEN "file" ELSE "dir"

\* C5: lockstep in a directory transfer.  While the receiver is at entry i it
\* has written ACK2 for exactly the i-1 entries before; while the sender is at
\* entry i it has read i-1 acknowledgments, the receiver has written at least
\* i-1 ACK2 tokens, and the bytes the sender consumed reach past the ACK2 of
\* entry i-1.
C5_Lockstep ==
  /\ (IsDirReceive /\ rcv.pc \in {"rd_entry", "rd_recv", "rd_ack"}) =>
       Count(wire, "ACK2") = rcv.i - 1
  /\ (kind = "directory" /\ snd.pc \in {"probe", "dpayload", "ack2"}) =>
       /\ snd.acks = snd.i - 1
       /\ Count(wire, "ACK2") >= snd.i - 1
       /\ snd.read >= Len(ACK1) + Len(ACK2) * (snd.i - 1)

\* C5 witness: the receiver is reading bytes of the second entry
C5_Witness ==
  /\ IsDirReceive /\ rcv.pc = "rd_recv" /\ rcv.i = 2 /\ rcv.received = 1
  /\ snd.i = 2 /\ snd.sent = 1

\* C6: directory order preservation.  The entries the receiver opens are the
\* manifest's, in the manifest's order; and every step that writes an ACK2 is
\* taken with exactly the declared size of the current entry read and written
\* and its size check passed.
C6_OrderOk ==
  IsDirReceive =>
    /\ Len(rcv.order) <= Len(rcv.metadata.files)
    /\ \A j \in 1..Len(rcv.order) : rcv.order[j] = rcv.metadata.files[j].path

C6_Ack2Step == Len(wire') = Len(wire) + 1 /\ wire'[Len(wire')] = "ACK2"

C6_OrderPreserved ==
  /\ []C6_OrderOk
  /\ [][C6_Ack2Step =>
          /\ Len(rcv.order) = rcv.i
          /\ rcv.received = rcv.metadata.files[rcv.i].size
          /\ Len(tmp.files[rcv.i]) = rcv.metadata.files[rcv.i].size
          /\ rcv.size_ok = rcv.i]_vars

\* C6 witness: two entries of one byte each, both acknowledged
C6_Witness ==
  /\ IsDirReceive /\ Count(wire, "ACK2") = 2 /\ rcv.order = <<1, 2>>
  /\ rcv.metadata.files[1].size = 1 /\ rcv.metadata.files[2].size = 1

\* C7: algorithm mismatch with skip-verification off.  The receiver writes no
\* token but MISMATCH, reads no payload byte and leaves the destination as it
\* was, with no staging artifact; the sender sends no payload byte, never
\* returns success, and returns the hash-mismatch rejection when it reads the
\* reply.
C7_MismatchRejected ==
  (TrueMismatch /\ ~skip) =>
    /\ \A k \in 1..Len(wire) : wire[k] = "MISMATCH"
    /\ rcv.pc \in {"meta", "algo", "closed"}
    /\ (rcv.pc = "closed" /\ rcv.metadata # NoMeta) => rcv.report = "rejected"
    /\ (rcv.report = "rejected" /\ sOpen /\ snd.pc = "ack1") => r2s = MISMATCH
    /\ rcv.received = 0 /\ tmp = NoTemp /\ fin = fin0
    /\ snd.sent_total = 0 /\ s2r = <<>>
    /\ snd.result # "true"
    /\ snd.response = MISMATCH => (snd.result = "false" /\ snd.err = "mismatch")

\* C7 witness: the sender returned the rejection, a file of that name untouched
C7_Witness ==
  /\ TrueMismatch /\ ~skip
  /\ snd.pc = "returned" /\ snd.err = "mismatch" /\ wire = <<"MISMATCH">>
  /\ fin0 = OldFile

\* C8: algorithm mismatch with skip-verification on.  The receiver never writes
\* MISMATCH and never rejects; once past the check it has written ACK1 (unless
\* that send failed) and gone on to the receive; every verification counts as
\* valid and the failed-validations list stays empty.
C8_MismatchSkipped ==
  (TrueMismatch /\ skip) =>
    /\ ~OnWire("MISMATCH")
    /\ rcv.report # "rejected"
    /\ (rcv.metadata # NoMeta /\ rcv.pc # "algo") =>
         \/ rcv.err = "ack1" /\ wire = <<>>
         \/ wire # <<>> /\ wire[1] = "ACK1"
    /\ rcv.hash_valid
    /\ failed_validations = <<>>

\* C8 witness: a file whose bytes changed after hashing is received, published
\* and acknowledged with DONE
C8_Witness ==
  /\ TrueMismatch /\ skip /\ IsFileReceive
  /\ rcv.pc = "closed" /\ OnWire("DONE")
  /\ fin.own = "new" /\ fin.files = <<<<1>>>>

\* C9: integrity failure is non-fatal.  When the hash of a fully received file
\* differs (skip off) and neither the move nor the send failed, there is exactly
\* one record in the failed-validations list, the file is at its final name and
\* DONE was written.
C9_IntegrityFailurePublishes ==
  (IsFileReceive /\ ~rcv.hash_valid /\ ReceiveReturned /\ rcv.err = "none") =>
    /\ Len(failed_validations) = 1
    /\ fin.kind = "file" /\ fin.own = "new"
    /\ OnWire("DONE")

\* C10 as claimed: free space exactly 1.1 x T is rejected, and free space of
\* 1.1 x T + 1 byte is accepted.
C10_BoundaryRejected ==
  (pf.out # "none" /\ pf.total > 0) =>
    /\ 10 * pf.free = 11 * pf.total => pf.out = "SPACE_ERROR"
    /\ 10 * pf.free = 11 * pf.total + 10 => pf.out = "proceed"

\* C10 as amended: free space below 1.1 x T is rejected, free space of
\* 1.1 x T + 1 byte or more is accepted, and at exactly 1.1 x T the strict
\* comparison with the floating-point product does not reject T = 10, free = 11.
C10_PreflightBoundary ==
  pf.out # "none" =>
    /\ 10 * pf.free < 11 * pf.total => pf.out = "SPACE_ERROR"
    /\ 10 * pf.free >= 11 * pf.total + 10 => pf.out = "proceed"
    /\ (pf.total = 10 /\ pf.free = 11) => pf.out = "proceed"

\* C10 witness: the preflight decided at the boundary, and accepted
C10_Witness ==
  /\ pf.total > 0 /\ 10 * pf.free = 11 * pf.total /\ pf.out = "proceed"

\* the directory receive is past the preflight of receive_directory
PastPreflight == IsDirReceive /\ OnWire("ACK1") /\ rcv.pc # "rd_start"

\* C11: when the free space is below 1.1 x the declared total, the directory
\* receive replies SPACE_ERROR (unless the send itself fails with the sender
\* gone) and aborts: no temp directory, no payload byte read, no ACK2, no DONE,
\* the final path as before; with the free space unknown the receive is never
\* rejected for space and goes on to the temp directory.
C11_PreflightAbort ==
  PastPreflight =>
    /\ (free # FreeUnknown /\ 10 * free < 11 * rcv.metadata.total_size) =>
         /\ rcv.err = "space" /\ ReceiveReturned
         /\ wire \in {<<"ACK1", "SPACE_ERROR">>, <<"ACK1">>}
         /\ sOpen => wire = <<"ACK1", "SPACE_ERROR">>
         /\ tmp = NoTemp /\ rcv.received = 0 /\ rcv.order = <<>>
         /\ fin = fin0
    /\ free = FreeUnknown =>
         /\ rcv.err # "space" /\ ~OnWire("SPACE_ERROR")
         /\ rcv.pc \in {"rd_entry", "rd_finalize"} => tmp.kind = "dir"

\* C11 witness: the sender has put payload on the connection, the receiver
\* rejected for space over an existing directory and returned
C11_Witness ==
  /\ PastPreflight /\ rcv.err = "space" /\ rcv.pc = "closed"
  /\ free = 1 /\ rcv.metadata.total_size = 2
  /\ snd.sent_total > 0 /\ fin0 = OldDir

\* no stop_server call has been made since the server thread was started
NoStopYet == stopper.calls = 0 /\ caller.pc \in {"wait", "post_check"}

\* C12: readiness signalling.  While nothing has stopped the server, the
\* readiness event being set implies that the listening socket is bound and
\* listening and that running is true, so the read of running that follows a
\* successful wait sees true; and a start whose bind of the listening socket
\* failed has readiness unset and running false.
C12_ReadyImpliesRunning ==
  /\ (server_ready /\ NoStopYet) => (lsock = "open" /\ server_control.running)
  /\ (caller.pc = "post_check" /\ stopper.calls = 0) => server_control.running
  /\ thr.bind = "failed" => (~server_ready /\ ~server_control.running)

\* C13: a thread at a statement that reads or writes running or the socket
\* handle holds the server mutex: the accept-loop thread in start_server, and
\* the UI thread in the stop_server it calls.
C13_AccessUnderMutex ==
  /\ thr.pc \in {"setrun", "setsock", "loop", "finally"} => server_lock = "server"
  /\ StopRunning(caller.call) => server_lock = "caller"

\* C14: stop_server is idempotent.  When a call of stop_server by the UI thread
\* returns (no other thread having called stop_server), running is false and
\* the socket handle is None; and a call that found the server stopped has
\* closed nothing and left server_control as it found it.
C14_StopIdempotent ==
  (caller.call.pc = "return" /\ stopper.calls = 0) =>
    /\ ~server_control.running /\ server_control.socket = "None"
    /\ caller.call.entry = NoControl =>
         (caller.call.socket_to_close = "None" /\ server_control = NoControl)

\* the last direct call of stop_server was made while start_server was running
\* (before the bind, before the stores, or in the accept loop) and has returned
StoppedDuringStart ==
  /\ stopper.calls > 0 /\ stopper.call.pc \in {"return", "none"}
  /\ stopper.at \in {"test", "ready", "bind", "setrun", "setsock", "loop", "accept"}

\* C15: cooperative shutdown.  After a stop_server call made at any point of a
\* running start_server has returned, no step sets running back to true, and
\* once the server thread has ended running is false and the listening socket
\* is not open.
C15_StopEndsServer ==
  /\ []((StoppedDuringStart /\ thr.pc = "exit") =>
          (~server_control.running /\ lsock # "open"))
  /\ [][StoppedDuringStart => ~(~server_control.running /\ server_control'.running)]_vars

\* ---- a client of its own making: any frame, then at most one payload byte
\* the manifests sender.py builds for a one-byte file and a directory of one
Without(m, key) == [k \in DOMAIN m \ {key} |-> m[k]]

RawFile ==
  [type |-> "file", name |-> NAME, size |-> 1,
   hash |-> calculate_file_hash("sha256", <<0>>), hash_algorithm |-> "sha256"]

RawDir ==
  [type |-> "directory", name |-> NAME, files |-> <<[path |-> 1, size |-> 1]>>,
   total_files |-> 1, total_size |-> 1, hash_algorithm |-> "sha256"]

RawManifests ==
  {RawFile, RawDir, [RawFile EXCEPT !.type = "bogus"]}
    \cup {Without(RawFile, k) : k \in DOMAIN RawFile}
    \cup {Without(RawDir, k) : k \in DOMAIN RawDir}

RawFrames ==
  {Frame(m) : m \in RawManifests}
    \cup [prefix : 0..3, metadata_size : {0}, got : {0}, json : {"invalid"}, value : {NoMeta}]
    \cup [prefix : {4}, metadata_size : {0, 1, METADATA_LIMIT}, got : {0},
          json : {"invalid"}, value : {NoMeta}]
    \cup {f \in [prefix : {4}, metadata_size : 1..MaxRawBody, got : 0..MaxRawBody,
                 json : {"invalid"}, value : {NoMeta}] : f.got <= f.metadata_size}
    \cup [prefix : {4}, metadata_size : {METADATA_LIMIT}, got : {METADATA_LIMIT},
          json : {"invalid"}, value : {NoMeta}]
    \cup [prefix : {4}, metadata_size : {METADATA_LIMIT + 1, 2 * METADATA_LIMIT}, got : 0..MaxRawBody,
          json : {"invalid", "object"}, value : {RawFile}]

RawInit ==
  /\ kind = "file" /\ sAlgo = "sha256" /\ rAlgo = "sha256" /\ skip = FALSE
  /\ src = <<[size |-> 0, disk |-> <<>>]>> /\ free = FreeUnknown
  /\ fin0 \in {NoEntry, OldFile} /\ fin = fin0 /\ tmp = NoTemp
  /\ snd = SndInit /\ rcv = RcvInit
  /\ connected = FALSE /\ sOpen = FALSE /\ rOpen = FALSE
  /\ metaq = <<>> /\ s2r = <<>> /\ r2s = <<>> /\ wire = <<>>
  /\ failed_validations = <<>>
  /\ pf = PfIdle /\ raw \in RawFrames
  /\ ServerUp /\ AuxIdle

\* the client connects; start_server 117-130 accepts and starts the handler
RawConnect ==
  /\ ~connected
  /\ connected' = TRUE /\ sOpen' = TRUE /\ rOpen' = TRUE
  /\ UNCHANGED <<cfgv, auxv, snd, rcv, metaq, s2r, r2s, wire, failed_validations, fsv, pf, srvv>>

\* the client writes its frame
RawWrite ==
  /\ connected /\ sOpen /\ snd.pc = "start"
  /\ snd' = [snd EXCEPT !.pc = "raw_sent"]
  /\ metaq' = <<raw>>
  /\ UNCHANGED <<cfgv, auxv, rcv, connected, sOpen, rOpen, s2r, r2s, wire, failed_validations,
                 fsv, pf, srvv>>

\* the client writes one payload byte after the frame
RawPayload ==
  /\ connected /\ sOpen /\ snd.pc = "raw_sent" /\ snd.sent_total = 0
  /\ snd' = [snd EXCEPT !.sent_total = 1]
  /\ s2r' = Append(s2r, 0)
  /\ UNCHANGED <<cfgv, auxv, rcv, connected, sOpen, rOpen, metaq, r2s, wire, failed_validations,
                 fsv, pf, srvv>>

RawNext == RawConnect \/ RawWrite \/ RawPayload \/ SenderCrash \/ Receiver

SpecRaw == RawInit /\ [][RawNext]_vars

\* ---- the timeout handling of sender.py _receive_acknowledgment, one call
\* the socket's settings before the call: blocking (gettimeout gives None),
\* non-blocking, the 30 s and 120 s send_file and send_directory set, others
AckSettings == {NoTimeout, 30, 120} \cup 0..MaxTimeout

\* the token lists the callers pass: send_file 118 and send_directory 227,
\* send_directory 290
AckExpected == {<<ACK1, MISMATCH>>, <<ACK2>>}

\* what the peer writes before the wait ends: nothing, a token, or other bytes
AckPeerBytes == {<<>>, ACK1, ACK2, MISMATCH, TIMEOUT, <<"X">>}

AckInit ==
  /\ kind = "file" /\ sAlgo = "sha256" /\ rAlgo = "sha256" /\ skip = FALSE
  /\ src = <<[size |-> 0, disk |-> <<>>]>> /\ free = FreeUnknown
  /\ fin0 = NoEntry /\ fin = NoEntry /\ tmp = NoTemp
  /\ snd = SndInit /\ rcv = RcvInit
  /\ connected = FALSE /\ sOpen = FALSE /\ rOpen = FALSE
  /\ metaq = <<>> /\ s2r = <<>> /\ r2s = <<>> /\ wire = <<>>
  /\ failed_validations = <<>>
  /\ pf = PfIdle /\ raw = NoFrame
  /\ ServerUp /\ fz = FzIdle /\ pth = PthIdle /\ acc = AccIdle /\ prb = PrbIdle
  /\ ack \in {[AckIdle EXCEPT !.pc = "s351", !.before = b, !.sock = b, !.timeout = t,
                               !.expected = e, !.peer = p] :
                b \in AckSettings, t \in {30, 60}, e \in AckExpected, p \in AckPeerBytes}

\* _receive_acknowledgment 351
AckGetTimeout ==
  /\ ack.pc = "s351"
  /\ ack' = [ack EXCEPT !.original_timeout = ack.sock, !.pc = "s352"]
  /\ UNCHANGED <<mainv, fz, pth, acc, prb>>

\* _receive_acknowledgment 352
AckSetTimeout ==
  /\ ack.pc = "s352"
  /\ ack' = [ack EXCEPT !.sock = ack.timeout, !.pc = "s356"]
  /\ UNCHANGED <<mainv, fz, pth, acc, prb>>

\* _receive_acknowledgment 355-356, 362-374: recv returns up to max_length of
\* the bytes that arrived, which then match an expected token or do not; with
\* none arrived it raises socket.timeout or socket.error, or returns b'' when
\* the peer closed
AckRecv ==
  /\ ack.pc = "s356"
  /\ IF ack.peer # <<>>
     THEN LET response == Take(ack.peer, AckMaxLength(ack.expected))
              m == AckMatch(response, ack.expected)
          IN ack' = [ack EXCEPT !.got = response, !.ok = m.ok, !.response = m.response,
                                !.exit = IF m.ok THEN "matched" ELSE "unexpected",
                                !.pc = "s359"]
     ELSE \/ ack' = [ack EXCEPT !.exit = "timeout", !.response = TIMEOUT, !.pc = "finally"]
          \/ ack' = [ack EXCEPT !.exit = "error", !.response = SOCKET_ERROR,
                                !.pc = "finally"]
          \/ ack' = [ack EXCEPT !.exit = "unexpected", !.pc = "s359"]
  /\ UNCHANGED <<mainv, fz, pth, acc, prb>>

\* _receive_acknowledgment 358-367: the restore after recv, then the return
AckRestore ==
  /\ ack.pc = "s359"
  /\ ack' = [ack EXCEPT !.sock = IF ack.original_timeout # NoTimeout
                                  THEN ack.original_timeout ELSE @,
                        !.pc = "finally"]
  /\ UNCHANGED <<mainv, fz, pth, acc, prb>>

\* _receive_acknowledgment 376-382: the finally clause
AckFinally ==
  /\ ack.pc = "finally"
  /\ ack' = [ack EXCEPT !.sock = IF ack.original_timeout # NoTimeout
                                  THEN ack.original_timeout ELSE @,
                        !.pc = "returned"]
  /\ UNCHANGED <<mainv, fz, pth, acc, prb>>

\* send_file 118-123, send_directory 227-232 and 290-298: the caller raises
\* socket.timeout when the response it got back equals b'TIMEOUT', and an
\* Exception that shows the response otherwise
AckClassify ==
  /\ ack.pc = "returned"
  /\ ack' = [ack EXCEPT !.pc = "classified",
                        !.class = IF ack.ok THEN "ok" ELSE AckErr(ack)]
  /\ UNCHANGED <<mainv, fz, pth, acc, prb>>

AckNext ==
  \/ AckGetTimeout \/ AckSetTimeout \/ AckRecv \/ AckRestore \/ AckFinally
  \/ AckClassify

SpecAck == AckInit /\ [][AckNext]_vars

\* ---- two handlers finalizing directories of one name (receive_directory
\* 528-534).  The final path is a directory or absent; its content is a set
\* of items: "old" what an earlier receive left, h the entries of handler h's
\* manifest, Inside(h) handler h's temp directory lying inside it.
Inside(h) == IF h = "A" THEN "tempA" ELSE "tempB"

FzInit ==
  /\ kind = "directory" /\ sAlgo = "sha256" /\ rAlgo = "sha256" /\ skip = FALSE
  /\ src = <<>> /\ free = FreeUnknown
  /\ fin0 = NoEntry /\ fin = NoEntry /\ tmp = NoTemp
  /\ snd = SndInit /\ rcv = RcvInit
  /\ connected = FALSE /\ sOpen = FALSE /\ rOpen = FALSE
  /\ metaq = <<>> /\ s2r = <<>> /\ r2s = <<>> /\ wire = <<>>
  /\ failed_validations = <<>>
  /\ pf = PfIdle /\ raw = NoFrame
  /\ ServerUp /\ ack = AckIdle /\ pth = PthIdle /\ acc = AccIdle /\ prb = PrbIdle
  /\ fz \in {[final |-> f, pc |-> [h \in Handlers |-> "recv"],
               listed |-> [h \in Handlers |-> {}]] :
               f \in {[exists |-> FALSE, content |-> {}], [exists |-> TRUE, content |-> {"old"}]}}

\* receive_directory 437-526: the entries are received into the handler's
\* temp directory, all of them or until one fails
FzReceive(h) ==
  /\ fz.pc[h] = "recv"
  /\ \E to \in {"s528", "failed"} : fz' = [fz EXCEPT !.pc[h] = to]
  /\ UNCHANGED <<mainv, ack, pth, acc, prb>>

\* receive_directory 555-563: the finally clause after a failure removes the
\* handler's temp directory
FzFinally(h) ==
  /\ fz.pc[h] = "failed"
  /\ fz' = [fz EXCEPT !.pc[h] = "cleaned"]
  /\ UNCHANGED <<mainv, ack, pth, acc, prb>>

\* receive_directory 528: os.path.exists(download_dir)
FzExists(h) ==
  /\ fz.pc[h] = "s528"
  /\ fz' = [fz EXCEPT !.pc[h] = IF fz.final.exists THEN "s529" ELSE "s530"]
  /\ UNCHANGED <<mainv, ack, pth, acc, prb>>

\* receive_directory 529, shutil.rmtree: the directory is listed; a directory
\* that is gone raises (the except clause at 532, then the finally clause)
FzList(h) ==
  /\ fz.pc[h] = "s529"
  /\ fz' = IF fz.final.exists
           THEN [fz EXCEPT !.pc[h] = "unlink", !.listed[h] = fz.final.content]
           ELSE [fz EXCEPT !.pc[h] = "failed"]
  /\ UNCHANGED <<mainv, ack, pth, acc, prb>>

\* shutil.rmtree: the listed items are removed; one that is gone raises
FzUnlink(h) ==
  /\ fz.pc[h] = "unlink"
  /\ fz' = IF fz.final.exists /\ fz.listed[h] \subseteq fz.final.content
           THEN [fz EXCEPT !.pc[h] = "rmdir", !.final.content = @ \ fz.listed[h]]
           ELSE [fz EXCEPT !.pc[h] = "failed",
                           !.final.content = IF fz.final.exists THEN @ \ fz.listed[h] ELSE @]
  /\ UNCHANGED <<mainv, ack, pth, acc, prb>>

\* shutil.rmtree: os.rmdir of the directory, which raises when the directory
\* is gone or is not empty
FzRmdir(h) ==
  /\ fz.pc[h] = "rmdir"
  /\ fz' = IF fz.final.exists /\ fz.final.content = {}
           THEN [fz EXCEPT !.pc[h] = "s530", !.final.exists = FALSE]
           ELSE [fz EXCEPT !.pc[h] = "failed"]
  /\ UNCHANGED <<mainv, ack, pth, acc, prb>>

\* receive_directory 530, shutil.move(temp_dir, download_dir): a rename onto
\* a free name; INTO the destination when that is an existing directory
FzMove(h) ==
  /\ fz.pc[h] = "s530"
  /\ fz' = IF fz.final.exists
           THEN [fz EXCEPT !.pc[h] = "done", !.final.content = @ \cup {Inside(h)}]
           ELSE [fz EXCEPT !.pc[h] = "done", !.final = [exists |-> TRUE, content |-> {h}]]
  /\ UNCHANGED <<mainv, ack, pth, acc, prb>>

FzNext ==
  \E h \in Handlers :
    \/ FzReceive(h) \/ FzExists(h) \/ FzList(h) \/ FzUnlink(h) \/ FzRmdir(h) \/ FzMove(h)
    \/ FzFinally(h)

SpecFz == FzInit /\ [][FzNext]_vars

\* the handler thread of the accepted connection has not returned yet
HandlerRunning == connected /\ rcv.pc # "closed"

\* C16: stopping the server leaves the transfers in progress alone: as long
\* as a handler runs, its accepted client socket is open, whatever stop_server
\* has done in the meantime; and once the listening socket is closed no new
\* connection is accepted.
C16_StopSparesTransfers ==
  /\ [](HandlerRunning => rOpen)
  /\ [][lsock # "open" => connected' = connected]_vars

\* stop_server was called and returned while the handler was receiving, and
\* the handler went on to publish and send DONE, which the sender got
C16_Witness ==
  /\ caller.pc = "returned" /\ caller.call.handler \notin {"none", "closed"}
  /\ lsock = "closed" /\ ~server_control.running
  /\ rcv.pc = "closed" /\ OnWire("DONE") /\ fin.own = "new" /\ snd.result = "true"

\* the frame the client writes has a prefix cut short, a declared length over
\* the cap, a body cut short, or a body that is not JSON
RawBad ==
  \/ raw.prefix < 4
  \/ raw.metadata_size > METADATA_LIMIT
  \/ raw.got < raw.metadata_size
  \/ raw.json = "invalid"

\* C17: when the manifest frame is over the 10 MiB cap, is not valid JSON or
\* is cut short, the handler never writes a control token and never touches
\* the filesystem; it goes from reading the manifest straight to closing the
\* connection, and of an oversized frame it reads no body byte.
C17_BadFrameClosedSilently ==
  RawBad =>
    /\ wire = <<>> /\ r2s = <<>>
    /\ fin = fin0 /\ tmp = NoTemp /\ failed_validations = <<>>
    /\ rcv.pc \in {"meta", "closed"}
    /\ rcv.pc = "closed" => (~rOpen /\ rcv.report = "error")
    /\ (raw.prefix = 4 /\ raw.metadata_size > METADATA_LIMIT) => rcv.body_read = 0

\* an oversized frame with body bytes behind the prefix was written, and the
\* handler closed the connection on the prefix
C17_Witness ==
  /\ raw.prefix = 4 /\ raw.metadata_size = METADATA_LIMIT + 1 /\ raw.got > 0
  /\ snd.pc = "raw_sent" /\ rcv.pc = "closed" /\ rcv.err = "toolarge" /\ ~rOpen

\* the frame is whole and its body a JSON object, which lacks a field the
\* transfer of its type needs or names no known type
RawIncomplete ==
  /\ raw.prefix = 4 /\ raw.metadata_size <= METADATA_LIMIT
  /\ raw.got = raw.metadata_size /\ raw.json = "object"
  /\ LET m == raw.value IN
       \/ Get(m, "type", "KeyError") \notin {"file", "directory"}
       \/ Get(m, "type", "KeyError") = "file" /\ ~HasKeys(m, {"name", "size", "hash"})
       \/ /\ Get(m, "type", "KeyError") = "directory"
          /\ ~HasKeys(m, {"name", "files", "total_files", "total_size"})

\* C18: a manifest that is valid JSON but lacks a required field, or has an
\* unknown type, gets no reply: the receiver writes neither ACK1 nor any other
\* token before it closes the connection.
C18_IncompleteManifestNoReply == RawIncomplete => wire = <<>>

\* the receive ended without publishing: every way receive_directory fails
\* before the temp directory is at the final path
DirReceiveFailed == ReceiveReturned /\ rcv.err \notin {"none", "done"}

\* C19: a directory X published by an earlier receive (fin0) and a second
\* receive of the same name: X is as the first left it until the second has
\* received every entry and starts to finalize; when the second fails, X is
\* still exactly what the first left; when it succeeds, X holds exactly the
\* files of the second manifest.
C19_SecondReceiveReplacesWhole ==
  (IsDirReceive /\ fin0 = OldDir) =>
    /\ rcv.pc \in {"algo", "rd_start", "rd_entry", "rd_recv", "rd_ack", "rd_finalize"}
         => fin = fin0
    /\ DirReceiveFailed => fin = fin0
    /\ (ReceiveReturned /\ ~DirReceiveFailed) =>
         /\ fin.kind = "dir" /\ fin.own = "new" /\ ~fin.nested
         /\ Len(fin.files) = Len(rcv.metadata.files)
         /\ \A j \in 1..Len(fin.files) : Len(fin.files[j]) = rcv.metadata.files[j].size

\* the sender met end-of-file before the declared size of the entry the
\* receiver is at, stopped sending it and went on to wait for its ACK2; the
\* receiver had opened the entry and got every byte that was sent of it
ShortEntry ==
  /\ IsDirReceive /\ rcv.i \in 1..Len(src) /\ Len(rcv.order) = rcv.i
  /\ Len(src[rcv.i].disk) < src[rcv.i].size
  /\ snd.i = rcv.i
  /\ snd.pc = "ack2" \/ (snd.pc = "returned" /\ snd.at = "ack2")
  /\ rcv.received = Len(src[rcv.i].disk)

\* C20: when the source of a directory entry is shorter than its declared
\* size, the receive ends with a size mismatch for that entry, the directory
\* is not published and the temp directory is removed.
C20_ShortfallIsSizeMismatch ==
  (ShortEntry /\ ReceiveReturned) =>
    /\ rcv.err = "size"
    /\ tmp = NoTemp /\ fin = fin0

\* an empty file of this transfer at the final path
EmptyFile == [kind |-> "file", own |-> "new", files |-> <<<<>>>>, nested |-> FALSE]

\* C21: for a file manifest with size 0 the receiver reads no payload and so
\* never ends in a timeout or a lost connection; a receive that meets no
\* error sends DONE, and DONE is sent with the empty file at the final path.
C21_ZeroByteFile ==
  (IsFileReceive /\ rcv.metadata.size = 0) =>
    /\ rcv.received = 0
    /\ rcv.err \notin {"timeout", "connlost", "network"}
    /\ (ReceiveReturned /\ rcv.err = "none") => OnWire("DONE")
    /\ OnWire("DONE") => fin = EmptyFile

\* C22: a receive_file or receive_directory that failed (connection lost,
\* timeout, disk error, SPACE_ERROR abort, finalize failure) is never reported
\* by handle_client as a completed transfer.
C22_FailureNotReportedCompleted ==
  (rcv.pc = "closed"
     /\ rcv.err \in {"connlost", "network", "timeout", "disk", "space", "finalize", "size"})
    => rcv.report # "completed"

\* C23: whatever the socket's timeout setting was before a call of
\* _receive_acknowledgment, a number of seconds or blocking, and whichever way
\* the call ends, the setting after the call is the setting before it.
C23_TimeoutRestored == ack.pc = "returned" => ack.sock = ack.before

\* the manifests written so far: those in flight and the one the handler holds
ManifestsSent == {metaq[k].value : k \in 1..Len(metaq)} \cup {rcv.metadata}

\* C25: in every directory manifest send_directory writes, total_size is the
\* sum of the sizes of the listed entries and total_files their number.
C25_ManifestTotals ==
  \A m \in ManifestsSent :
    m.type = "directory" =>
      /\ m.total_size = SumSizes(m.files)
      /\ m.total_files = Len(m.files)

\* a manifest of two one-byte entries reached the handler
C25_Witness ==
  /\ rcv.metadata.type = "directory" /\ Len(rcv.metadata.files) = 2
  /\ \A j \in 1..2 : rcv.metadata.files[j].size = 1
  /\ rcv.metadata.total_size = 2 /\ rcv.metadata.total_files = 2

\* C24: in send_file the path check, the size and the hash are all done
\* before the first network operation: once the connection is made, the hash
\* of the file has been computed.
C24_HashBeforeNetwork == (kind = "file" /\ connected) => snd.hashed

\* C26: every entry of a directory manifest carries path, size and hash; and
\* with verification on, an entry received with content that differs from
\* what the sender listed is in the failed-validations list once the entry
\* has been checked.
C26_DirEntriesVerified ==
  /\ \A m \in ManifestsSent :
       m.type = "directory" =>
         \A j \in 1..Len(m.files) : HasKeys(m.files[j], {"path", "size", "hash"})
  /\ (IsDirReceive /\ ~skip /\ rcv.pc = "rd_ack"
        /\ \E k \in 1..Len(tmp.files[rcv.i]) : tmp.files[rcv.i][k] = 1)
       => failed_validations # <<>>

\* C27: control tokens are consumed one at a time.  While every read of the
\* sender has matched, the bytes it consumed are those of ACK1 and of the
\* ACK2 tokens it counted, four each; and a send_file of a zero-byte file
\* that has read the bytes of both ACK1 and DONE, the receiver having
\* published the file, returns success.
C27_TokensOneAtATime ==
  /\ snd.pc \in {"payload", "probe", "dpayload", "ack2", "waitdone"}
       => snd.read = 4 * (1 + snd.acks)
  /\ (kind = "file" /\ src[1].size = 0 /\ snd.pc = "returned"
        /\ wire = <<"ACK1", "DONE">> /\ snd.read = 8 /\ fin = EmptyFile)
       => snd.result = "true"

\* C28: a single-file receive that fails removes only what it created: a file
\* that was at the final path before the transfer started is still there,
\* with its content, after the failure cleanup.
C28_CleanupSparesOldFile ==
  (IsFileReceive /\ fin0 = OldFile /\ ReceiveReturned
     /\ rcv.err \in {"connlost", "network", "timeout", "disk", "keyerror"})
    => fin = fin0

\* C29: once two handlers receiving directories of the same name have both
\* left their finalize steps, at least one having moved its directory, the
\* final directory holds exactly the entries of one of the two manifests.
C29_NoMergedOrNested ==
  ((\A h \in Handlers : fz.pc[h] \in {"done", "cleaned"}) /\ (\E h \in Handlers : fz.pc[h] = "done"))
    => /\ fz.final.exists
       /\ \E h \in Handlers : fz.final.content = {h}

\* C30: no recorded integrity failure is lost: once the accept loop has
\* exited and the validation summary has been produced, every record in the
\* failed-validations list is one the summary showed, whenever its handler
\* appended it.
C30_SummaryCoversAllRecords ==
  thr.pc \in {"finally", "exit"} => failed_validations = thr.summary

\* C31: whenever receive_mode has returned reporting a startup failure (the
\* readiness wait timed out, or running was read false), the server of that
\* start is not listening and does not start listening later: running is
\* false and no listening socket is open, no other thread having called
\* stop_server.
C31_FailedStartNeverListens ==
  (caller.pc \in {"returned", "exited"} /\ caller.result \in {"timeout", "failed"}
   /\ stopper.calls = 0)
    => (~server_control.running /\ lsock # "open")

\* C32: once start_server has returned, for whatever reason (stop request,
\* error inside the accept loop, bind failure), running is false and the
\* socket handle in server_control is None, no other thread having called
\* stop_server.
C32_ReturnedMeansDown ==
  (thr.pc = "exit" /\ stopper.calls = 0)
    => (~server_control.running /\ server_control.socket = "None")

\* ------------------------------------------------- paths of one receive
\* every variable of the transfer and of the server at rest
MainIdle ==
  /\ kind = "file" /\ sAlgo = "sha256" /\ rAlgo = "sha256" /\ skip = FALSE
  /\ src = <<[size |-> 0, disk |-> <<>>]>> /\ free = FreeUnknown
  /\ fin0 = NoEntry /\ fin = NoEntry /\ tmp = NoTemp
  /\ snd = SndInit /\ rcv = RcvInit
  /\ connected = FALSE /\ sOpen = FALSE /\ rOpen = FALSE
  /\ metaq = <<>> /\ s2r = <<>> /\ r2s = <<>> /\ wire = <<>>
  /\ failed_validations = <<>>
  /\ pf = PfIdle /\ raw = NoFrame
  /\ ServerUp

\* A location is the sequence of directory names from the file-system root.
\* The process runs in Cwd and RECEIVED_DIR is a directory of Cwd.
Cwd == <<"cwd">>
RECEIVED_DIR == <<"cwd", "received">>
\* the random name mkstemp / mkdtemp makes inside RECEIVED_DIR
TempLoc == RECEIVED_DIR \o <<"tmp">>

Comps == {"..", "a"}
PathsUpTo(n) == UNION {[1..k -> Comps] : k \in 1..n}
Front(q) == SubSeq(q, 1, Len(q) - 1)
Prefixes(loc) == {SubSeq(loc, 1, k) : k \in 0..Len(loc)}
Beneath(loc, root) ==
  Len(loc) > Len(root) /\ SubSeq(loc, 1, Len(root)) = root

\* os.path.join(base, p): an absolute p discards base; nothing is normalised
Join(base, p) == IF p.abs THEN p.parts ELSE base \o p.parts

\* os.path.normpath on an absolute path: ".." removes the component before
\* it, lexically, and is dropped at the root
RECURSIVE NormFrom(_, _)
NormFrom(done, parts) ==
  IF parts = <<>> THEN done
  ELSE IF Head(parts) = ".."
       THEN NormFrom(IF done = <<>> THEN done ELSE Front(done), Tail(parts))
       ELSE NormFrom(done \o <<Head(parts)>>, Tail(parts))
normpath(parts) == NormFrom(<<>>, parts)

\* the kernel's resolution of an absolute path against the directories dirs:
\* every component but the last must name an existing directory
RECURSIVE WalkFrom(_, _, _)
WalkFrom(cur, parts, dirs) ==
  IF parts = <<>> THEN [ok |-> TRUE, loc |-> cur]
  ELSE LET c == Head(parts)
           nxt == IF c = ".." THEN (IF cur = <<>> THEN cur ELSE Front(cur))
                  ELSE cur \o <<c>>
       IN IF Len(parts) > 1 /\ nxt \notin dirs
          THEN [ok |-> FALSE, loc |-> nxt]
          ELSE WalkFrom(nxt, Tail(parts), dirs)
Walk(parts, dirs) == WalkFrom(<<>>, parts, dirs)

PthNames ==
  {[abs |-> b, parts |-> q] : b \in BOOLEAN, q \in {<<"n">>, <<"..">>, <<"a", "n">>}}
PthEntries == {[abs |-> b, parts |-> q] : b \in BOOLEAN, q \in PathsUpTo(MaxDepth)}

PathInit ==
  /\ MainIdle /\ ack = AckIdle /\ fz = FzIdle /\ acc = AccIdle /\ prb = PrbIdle
  /\ \E k \in {"file", "directory"}, n \in PthNames, e \in PthEntries :
       /\ k = "file" => e = [abs |-> FALSE, parts |-> <<"a">>]
       /\ pth = [PthIdle EXCEPT !.pc = "mktemp", !.kind = k, !.name = n, !.path = e,
                                !.dirs = {<<>>, Cwd, RECEIVED_DIR}]

\* receive_file 332-336, receive_directory 438: mkstemp / mkdtemp with
\* dir=RECEIVED_DIR and prefix "." + name + "_". A one-component name gives a
\* plain file name inside RECEIVED_DIR (for "/n" the prefix is "./n_", for
\* ".." it is "..._"); with more components the prefix names a directory that
\* does not exist and the call raises.
PathMkTemp ==
  /\ pth.pc = "mktemp"
  /\ pth' = IF Len(pth.name.parts) = 1
            THEN [pth EXCEPT !.pc = IF pth.kind = "file" THEN "publish" ELSE "ensure",
                             !.temp = TempLoc, !.created = @ \cup {TempLoc},
                             !.dirs = IF pth.kind = "directory" THEN @ \cup {TempLoc} ELSE @]
            ELSE [pth EXCEPT !.pc = "done", !.err = "mktemp"]
  /\ UNCHANGED <<mainv, ack, fz, acc, prb>>

\* receive_directory 452-455 with utils.py ensure_directory 111-116: makedirs
\* of normpath(dirname(os.path.join(temp_dir, path))) makes every missing
\* directory down to it
PathEnsure ==
  /\ pth.pc = "ensure"
  /\ LET d == normpath(Front(Join(pth.temp, pth.path)))
         made == Prefixes(d) \ pth.dirs
     IN pth' = [pth EXCEPT !.pc = "open", !.dirs = @ \cup made,
                           !.created = @ \cup made]
  /\ UNCHANGED <<mainv, ack, fz, acc, prb>>

\* receive_directory 457-458: open(file_path, 'wb') on the joined path; it
\* raises when a component is missing or the path names a directory
PathOpen ==
  /\ pth.pc = "open"
  /\ LET w == Walk(Join(pth.temp, pth.path), pth.dirs)
     IN pth' = IF w.ok /\ w.loc \notin pth.dirs
               THEN [pth EXCEPT !.pc = "publish", !.created = @ \cup {w.loc}]
               ELSE [pth EXCEPT !.pc = "done", !.err = "open"]
  /\ UNCHANGED <<mainv, ack, fz, acc, prb>>

\* receive_file 318, 355 and receive_directory 389, 528-531: the final path
\* is os.path.join(RECEIVED_DIR, name). shutil.move puts the source inside
\* the final path when that is an existing directory, and renames it
\* otherwise; receive_directory removes an existing final path first, and the
\* move raises when the temp directory went with it.
PathPublish ==
  /\ pth.pc = "publish"
  /\ LET w == Walk(Join(RECEIVED_DIR, pth.name), pth.dirs)
         isdir == w.loc \in pth.dirs
         gone == isdir /\ (pth.temp = w.loc \/ Beneath(pth.temp, w.loc))
     IN pth' =
          IF ~w.ok THEN [pth EXCEPT !.pc = "done", !.err = "finalize"]
          ELSE IF pth.kind = "file"
          THEN [pth EXCEPT !.pc = "done", !.pub = TRUE,
                           !.published = IF isdir THEN w.loc \o <<"tmp">> ELSE w.loc]
          ELSE IF gone
          THEN [pth EXCEPT !.pc = "done", !.err = "finalize", !.removed = {w.loc}]
          ELSE [pth EXCEPT !.pc = "done", !.pub = TRUE, !.published = w.loc,
                           !.removed = IF isdir THEN {w.loc} ELSE {}]
  /\ UNCHANGED <<mainv, ack, fz, acc, prb>>

PathNext == PathMkTemp \/ PathEnsure \/ PathOpen \/ PathPublish

SpecPath == PathInit /\ [][PathNext]_vars

\* C33: staging containment: whatever names the manifest carries, every file
\* and directory the handler creates during the receive is its temp artifact
\* or lies beneath it, and the published result lies beneath RECEIVED_DIR.
C33_StagingContained ==
  /\ \A l \in pth.created : l = pth.temp \/ Beneath(l, pth.temp)
  /\ pth.pub => Beneath(pth.published, RECEIVED_DIR)

\* ------------------------------------------- the accept loop and its handlers
AccInit ==
  /\ MainIdle /\ ack = AckIdle /\ fz = FzIdle /\ pth = PthIdle /\ prb = PrbIdle
  /\ acc = [AccIdle EXCEPT !.pc = "loop"]

\* a client connects: the connection waits in the listen queue
AccConnect ==
  /\ acc.pc # "none" /\ acc.connects < MaxConns
  /\ acc' = [acc EXCEPT !.connects = @ + 1, !.pending = @ + 1]
  /\ UNCHANGED <<mainv, ack, fz, pth, prb>>

\* start_server 116: while server_control['running'], the server not stopped
AccLoop ==
  /\ acc.pc = "loop"
  /\ acc' = [acc EXCEPT !.pc = "accept"]
  /\ UNCHANGED <<mainv, ack, fz, pth, prb>>

\* start_server 118-119, 132-133: no connection within SERVER_TIMEOUT
AccTimeout ==
  /\ acc.pc = "accept" /\ acc.pending = 0
  /\ acc' = [acc EXCEPT !.pc = "loop"]
  /\ UNCHANGED <<mainv, ack, fz, pth, prb>>

\* start_server awaiting the running handlers before it accepts again
AccAcceptAwaits ==
  /\ acc.pc = "accept" /\ acc.pending > 0 /\ acc.running = 0
  /\ acc' = [acc EXCEPT !.pc = "spawn", !.pending = @ - 1]
  /\ UNCHANGED <<mainv, ack, fz, pth, prb>>

\* start_server 119: accept returns a waiting connection
AccAccept ==
  /\ acc.pc = "accept" /\ acc.pending > 0
  /\ acc' = [acc EXCEPT !.pc = "spawn", !.pending = @ - 1]
  /\ UNCHANGED <<mainv, ack, fz, pth, prb>>

\* start_server 125-130: a daemon thread is made for handle_client and
\* started; the loop goes back to its condition without joining it
AccSpawn ==
  /\ acc.pc = "spawn"
  /\ acc' = [acc EXCEPT !.pc = "loop", !.running = @ + 1]
  /\ UNCHANGED <<mainv, ack, fz, pth, prb>>

\* handle_client 180-276 runs to its end in its own thread
AccHandlerEnd ==
  /\ acc.running > 0
  /\ acc' = [acc EXCEPT !.running = @ - 1, !.ended = @ + 1]
  /\ UNCHANGED <<mainv, ack, fz, pth, prb>>

AccNext ==
  \/ AccConnect \/ AccLoop \/ AccTimeout \/ AccAccept \/ AccSpawn \/ AccHandlerEnd

SpecAcc == AccInit /\ [][AccNext]_vars

\* C34: handlers are fire-and-forget: with a connection waiting, the accept
\* loop accepts it however many handlers are still running, and the start of
\* the new handler waits for none of them; every connection accepted is
\* running or has ended, so the handlers running at once are limited only by
\* the connections made.
C34_FireAndForget ==
  /\ (acc.pc = "accept" /\ acc.pending > 0) => ENABLED AccAccept
  /\ acc.pc = "spawn" => ENABLED AccSpawn
  /\ acc.pc # "none" =>
       acc.connects = acc.pending + acc.running + acc.ended
                        + (IF acc.pc = "spawn" THEN 1 ELSE 0)

\* every connection made is being served at the same time
C34_Witness ==
  acc.pc = "accept" /\ acc.running = MaxConns /\ acc.ended = 0

\* --------------------------------------- the entry loop of send_directory
\* the chunk counts of the entries sent: none, one, and around PROBE_EVERY
ChunkCounts == {0, 1, PROBE_EVERY, MaxChunks}

\* send_directory 272: the test made after a chunk was sent
ProbeSkipsHundredth(chunk_count) == chunk_count % PROBE_EVERY = 1
ProbeDue(chunk_count) == chunk_count % PROBE_EVERY = 0

PrbInit ==
  /\ MainIdle /\ ack = AckIdle /\ fz = FzIdle /\ pth = PthIdle /\ acc = AccIdle
  /\ \E c \in [1..2 -> ChunkCounts] :
       prb = [PrbIdle EXCEPT !.pc = "probe", !.chunks = c, !.i = 1]

\* send_directory 249-254: sock.send(b'') before entry i is opened; the
\* except clause raises and the function returns False
PrbEntryProbe ==
  /\ prb.pc = "probe"
  /\ \/ prb' = [prb EXCEPT !.pc = "chunk", !.chunk_count = 0, !.probes = 1]
     \/ prb' = [prb EXCEPT !.pc = "returned", !.probes = 1, !.probe_failed = TRUE,
                           !.failed_in_loop = FALSE, !.sent_at_fail = prb.sent_total]
  /\ UNCHANGED <<mainv, ack, fz, pth, acc>>

\* send_directory 259-282: one pass of the chunk loop: sendall of the chunk,
\* the counters, and the probe when ProbeDue; a sendall that raises ends the
\* function as well
PrbChunk ==
  /\ prb.pc = "chunk" /\ prb.chunk_count < prb.chunks[prb.i]
  /\ \/ prb' = [prb EXCEPT !.pc = "returned"]
     \/ LET n == prb.chunk_count + 1
            s == [prb EXCEPT !.chunk_count = n, !.sent_total = @ + 1]
        IN IF ProbeDue(n)
           THEN \/ prb' = [s EXCEPT !.probes = @ + 1]
                \/ prb' = [s EXCEPT !.pc = "returned", !.probes = @ + 1,
                                    !.probe_failed = TRUE, !.failed_in_loop = TRUE,
                                    !.sent_at_fail = s.sent_total]
           ELSE prb' = s
  /\ UNCHANGED <<mainv, ack, fz, pth, acc>>

\* send_directory 259, 288-306: the entry is sent and its ACK2 is awaited
PrbAck2 ==
  /\ prb.pc = "chunk" /\ prb.chunk_count = prb.chunks[prb.i]
  /\ \/ prb' = [prb EXCEPT !.pc = "returned"]
     \/ prb' = [prb EXCEPT !.i = @ + 1,
                           !.pc = IF prb.i = Len(prb.chunks) THEN "waitdone" ELSE "probe"]
  /\ UNCHANGED <<mainv, ack, fz, pth, acc>>

\* send_directory 309-317: the final DONE
PrbDone ==
  /\ prb.pc = "waitdone"
  /\ prb' = [prb EXCEPT !.pc = "returned"]
  /\ UNCHANGED <<mainv, ack, fz, pth, acc>>

PrbNext == PrbEntryProbe \/ PrbChunk \/ PrbAck2 \/ PrbDone

SpecProbe == PrbInit /\ [][PrbNext]_vars

\* C35: in send_directory a zero-length probe is written before the first
\* byte of every entry and again after every 100th chunk of that entry, the
\* chunk counter restarting at each entry; after a failed probe no further
\* payload is sent.
C35_ProbeSchedule ==
  /\ (prb.pc = "chunk" \/ prb.failed_in_loop)
       => prb.probes = 1 + prb.chunk_count \div PROBE_EVERY
  /\ prb.probe_failed => (prb.pc = "returned" /\ prb.sent_total = prb.sent_at_fail)

\* the second entry has had its entry probe and its probes after the 100th
\* and the 200th chunk
C35_Witness ==
  prb.i = 2 /\ prb.pc = "chunk" /\ prb.chunk_count = 2 * PROBE_EVERY /\ prb.probes = 3
    /\ prb.chunks[1] = PROBE_EVERY

\* C36: when the ACK2 wait for entry i of a directory fails, the sender's
\* error names entry i, reports i - 1 completed files, which is the number of
\* ACK2 tokens received so far, and names entry i - 1 as the last successful
\* file (none, 0, for i = 1); from then on the sender writes nothing to the
\* connection and makes no further attempt.
C36_Ack2FailureReport ==
  /\ [](snd.pc = "returned" /\ snd.at = "ack2" =>
          /\ snd.result = "false"
          /\ snd.report.file = snd.i
          /\ snd.report.files_completed = snd.i - 1
          /\ snd.report.files_completed = snd.acks
          /\ snd.report.last = snd.i - 1
          /\ ~sOpen)
  /\ [][snd.pc = "returned" /\ snd.at = "ack2" =>
          (snd' = snd /\ Len(s2r') <= Len(s2r) /\ Len(metaq') <= Len(metaq))]_vars

\* the wait for the second entry's ACK2 failed after the first was acknowledged
C36_Witness ==
  snd.pc = "returned" /\ snd.at = "ack2" /\ snd.i = 2 /\ snd.acks = 1
    /\ snd.report = [file |-> 2, files_completed |-> 1, last |-> 1]

\* C37: the receiver never reports a file as verified unless its hash was
\* computed and found equal to the manifest's hash; with skip-verification
\* set the outcome shown is not "verified".
C37_VerifiedMeansHashed ==
  rcv.shown = "verified" => (rcv.hash_computed /\ ~skip)

\* C38: no protocol deadlock: every socket operation returning or timing
\* out, every send_file / send_directory invocation ends and the handler of
\* every connection made ends, also when the sender waits for ACK2 while the
\* handler waits for payload bytes.
C38_BothSidesTerminate ==
  <>[](/\ snd.pc \in {"returned", "crashed"}
       /\ connected => rcv.pc = "closed")

\* the sender sent less than the entry's size and waited for ACK2, the handler
\* waited for the rest, and both have ended
C38_Witness ==
  /\ kind = "directory" /\ snd.pc = "returned" /\ snd.at = "ack2"
  /\ rcv.pc = "closed" /\ rcv.err = "timeout" /\ snd.sent_total < ScanTotal(src)

\* C39: the sender classifies an acknowledgment failure as a timeout only if
\* no byte arrived within the timeout; bytes received that match no
\* acceptable token, whatever their content, are classified as an unexpected
\* response.
C39_TimeoutMeansNoBytes ==
  /\ ack.class = "timeout" => (ack.got = <<>> /\ ack.exit = "timeout")
  /\ (ack.pc = "classified" /\ ack.got # <<>> /\ ~ack.ok) => ack.class = "ack"

\* C40: send_directory on a directory without files returns failure after it
\* opened the connection, having sent no manifest and no other byte; the
\* handler of that connection ends with a failure to read the manifest, sends
\* no token and writes nothing to disk.
C40_EmptyDirectory ==
  (kind = "directory" /\ src = <<>>) =>
    /\ metaq = <<>> /\ s2r = <<>> /\ snd.sent_total = 0
    /\ (snd.pc = "returned" /\ connected) =>
         (snd.result = "false" /\ snd.err = "nofiles" /\ snd.at = "prepare")
    /\ rcv.pc = "closed" =>
         /\ rcv.report = "error" /\ rcv.err \in {"nometa", "timeout"}
         /\ rcv.metadata = NoMeta
    /\ wire = <<>> /\ r2s = <<>>
    /\ fin = fin0 /\ tmp = NoTemp

\* the sender returned for want of files and the handler gave up on the manifest
C40_Witness ==
  /\ kind = "directory" /\ src = <<>> /\ connected
  /\ snd.pc = "returned" /\ snd.err = "nofiles"
  /\ rcv.pc = "closed" /\ rcv.err = "nometa"

====
